---- MODULE Spec2Model ----
(***************************************************************************)
(* The grammar analysis of the LEMON LALR(1) parser generator              *)
(* (src/tools/lemon/lemon.c): rule precedences, nullable flags and FIRST   *)
(* sets, the LR(0) states with their follow-set propagation links, the     *)
(* follow sets, and the parser actions with conflict resolution.           *)
(*                                                                         *)
(* Symbols are named by their index (the index main() assigns after the    *)
(* sort by name): 0 is "$", 1 .. nterminal-1 are the terminals, then the   *)
(* nonterminals, the first of which is "error"; nsymbol is "{default}".    *)
(* Rules are named by their index, 0 .. nrule-1, and states by theirs.     *)
(* A configuration is named by its place in the arena cfg (the model of    *)
(* the storage newconfig() hands out).                                     *)
(***************************************************************************)
EXTENDS Integers, Sequences, FiniteSets, TLC

VARIABLES
  pc,         \* the phase main() is about to run
  rule,       \* lemp->rule: the rules, in the global order (index = place - 1)
  prec,       \* symbol -> sp->prec (-1 if undefined)
  assoc,      \* symbol -> sp->assoc
  start,      \* lemp->start: the name given by %start_symbol
  lambda,     \* symbol -> sp->lambda
  firstset,   \* nonterminal -> sp->firstset
  cfg,        \* the configurations
  x3a,        \* the state table, in insertion order (State_arrayof gives lemp->sorted)
  stack,      \* the calls of buildshifts that have not returned, innermost last
  errorcnt,   \* lemp->errorcnt
  nconflict,  \* lemp->nconflict
  aborted,    \* an assert of the program failed (myassert exits)
  call,       \* the arguments and the result of one call of resolve_conflict
  opt,        \* the flags of the command line (the statics of main)
  exitcode,   \* the argument of exit(), NoExit while the program runs
  stdout,     \* what was written to stdout, in order
  stderr,     \* what was written to stderr, in order
  opened,     \* the output files fopen has opened for writing, in order
  disk,       \* the files outside the program: input, template, outputs
  ps,         \* struct pstate of Parse, with the declaration arguments it stores
  x2a,        \* the symbol table, with the names of the symbols, in insertion order
  lem         \* lem.nsymbol, lem.symbols and lem.nterminal, as main sets them

vars == <<pc, rule, prec, assoc, start, lambda, firstset, cfg, x3a, stack,
          errorcnt, nconflict, aborted, call,
          opt, exitcode, stdout, stderr, opened, disk, ps, x2a, lem>>

----------------------------------------------------------------------------
(* Bounds of the model *)

NumTerminals == 2       \* terminals of the grammars (besides "$")
NumNonterminals == 3    \* nonterminals of the grammars ("error" is the first)
MaxRules == 3           \* rules of an enumerated grammar
MaxRhs == 2             \* right-hand side symbols of an enumerated rule
MaxPrec == 2            \* %left/%right/%nonassoc declarations

(* Program constants *)

LISTSIZE == 30

----------------------------------------------------------------------------
(* Symbols *)

nterminal == NumTerminals + 1
nsymbol == nterminal + NumNonterminals
Terminals == 1 .. (nterminal - 1)
Nonterminals == nterminal .. (nsymbol - 1)
errsym == nterminal
NoSym == -1       \* a null symbol or rule pointer
NoName == -1      \* lemp->start == 0
BadName == -2     \* a name Symbol_find does not find

SymType(sp) == IF sp \in Terminals THEN "TERMINAL" ELSE "NONTERMINAL"

AssocOf == {"LEFT", "RIGHT", "NONE"}

(* The rule at index i, and the chain sp->rule of the rules of a nonterminal:
   the parser puts each new rule at the head of the chain of its LHS. *)
Rp(rules, i) == rules[i + 1]

RECURSIVE RuleChain(_, _, _)
RuleChain(rules, sp, k) ==
  IF k < 0 THEN <<>>
  ELSE IF Rp(rules, k).lhs = sp THEN <<k>> \o RuleChain(rules, sp, k - 1)
       ELSE RuleChain(rules, sp, k - 1)

SpRule(rules, sp) == RuleChain(rules, sp, Len(rules) - 1)

----------------------------------------------------------------------------
(* The command line, the streams and the files.  An entry of stdout or stderr
   is one call that writes to it: by is the function, msg what it says and arg
   the rule or the number it is about. *)
NoExit == -1      \* exit() has not been called

Options == [compress : BOOLEAN, rpflag : BOOLEAN, quiet : BOOLEAN,
            mhflag : BOOLEAN, statistics : BOOLEAN]
NoOptions == [compress |-> FALSE, rpflag |-> FALSE, quiet |-> FALSE,
              mhflag |-> FALSE, statistics |-> FALSE]

Say(by, msg, arg) == [by |-> by, msg |-> msg, arg |-> arg]

(* ErrorMsg prints its message with fprintf(stdout, ...). *)
ErrorMsg(out, msg, arg) == Append(out, Say("ErrorMsg", msg, arg))

RECURSIVE ErrorMsgs(_, _, _)
ErrorMsgs(out, msg, n) ==
  IF n = 0 THEN out ELSE ErrorMsgs(ErrorMsg(out, msg, NoSym), msg, n - 1)

(* myassert: the message on stderr; the caller exits with 1. *)
myassert(err) == Append(err, Say("myassert", "Assertion failed", NoSym))

(* exit() with a status that only tells success from failure. *)
ExitStatus_flag(n) == IF n = 0 THEN 0 ELSE 1

(* exit(n): the status the parent sees is the low byte of n. *)
ExitStatus(n) == n % 256

(* The files: the text of the input file and whether fopen and fread succeed
   on it, whether the template is found and opens, the output files fopen
   opens for writing, and the lines of the .h file if there is one. *)
Suffixes == {".out", ".c", ".h"}
(* The two tables of the .c file, not written. *)
NoTables == [yyActionTable |-> <<>>, yyStateTable |-> <<>>]

NoDisk == [input |-> <<>>, readable |-> "ok", template |-> "ok",
           writable |-> Suffixes, h |-> <<>>, hexists |-> FALSE,
           c |-> NoTables]

(* The symbol table and the fields of lem that hold its indexing, where the
   model identifies the symbols by their indices from the start. *)
NoLem == [nsymbol |-> 0, symbols |-> <<>>, nterminal |-> 0]
NoSymbols == x2a = <<>> /\ lem = NoLem

InitRun ==
  /\ exitcode = NoExit
  /\ stdout = <<>>
  /\ stderr = <<>>
  /\ opened = <<>>

----------------------------------------------------------------------------
(* Sets of terminals (set.c) *)

SetAdd(s, e) == [set |-> s \cup {e}, rv |-> IF e \in s THEN 0 ELSE 1]

(* SetUnion that reports progress whether or not the set has grown. *)
SetUnion_always(s1, s2) == [set |-> s1 \cup s2, rv |-> 1]

SetUnion(s1, s2) == [set |-> s1 \cup s2, rv |-> IF s2 \subseteq s1 THEN 0 ELSE 1]

----------------------------------------------------------------------------
(* FindRulePrecedences *)

(* FirstPrecSym without the break: the last symbol with a precedence. *)
RECURSIVE FirstPrecSym_nobreak(_, _, _)
FirstPrecSym_nobreak(rp, i, precs) ==
  IF i >= Len(rp.rhs) THEN NoSym
  ELSE LET later == FirstPrecSym_nobreak(rp, i + 1, precs)
       IN IF later # NoSym THEN later
          ELSE IF precs[rp.rhs[i + 1]] >= 0 THEN rp.rhs[i + 1] ELSE NoSym

RECURSIVE FirstPrecSym(_, _, _)
FirstPrecSym(rp, i, precs) ==
  IF i >= Len(rp.rhs) THEN NoSym
  ELSE IF precs[rp.rhs[i + 1]] >= 0 THEN rp.rhs[i + 1]
       ELSE FirstPrecSym(rp, i + 1, precs)

FindRulePrecedences(rules, precs) ==
  [k \in 1 .. Len(rules) |->
     IF rules[k].precsym = NoSym
       THEN [rules[k] EXCEPT !.precsym = FirstPrecSym(rules[k], 0, precs)]
       ELSE rules[k]]

----------------------------------------------------------------------------
(* FindFirstSets *)

(* One pass of the first do-loop over the rules from place k on. *)
RECURSIVE LambdaPass(_, _, _, _)
LambdaPass(rules, k, lam, progress) ==
  IF k > Len(rules) THEN [lambda |-> lam, progress |-> progress]
  ELSE LET rp == rules[k] IN
       IF lam[rp.lhs] THEN LambdaPass(rules, k + 1, lam, progress)
       ELSE IF \A i \in 1 .. Len(rp.rhs) : lam[rp.rhs[i]]
              THEN LambdaPass(rules, k + 1, [lam EXCEPT ![rp.lhs] = TRUE], 1)
              ELSE LambdaPass(rules, k + 1, lam, progress)

(* LambdaLoop with one pass over the rules instead of a loop to no progress. *)
LambdaLoop_onepass(rules, lam) == LambdaPass(rules, 1, lam, 0).lambda

RECURSIVE LambdaLoop(_, _)
LambdaLoop(rules, lam) ==
  LET r == LambdaPass(rules, 1, lam, 0) IN
  IF r.progress # 0 THEN LambdaLoop(rules, r.lambda) ELSE r.lambda

(* FirstScan that leaves the loop at s1 == s2 whether or not s1 is nullable. *)
RECURSIVE FirstScan_selfbreak(_, _, _, _, _)
FirstScan_selfbreak(rp, i, fs, progress, lam) ==
  IF i >= Len(rp.rhs) THEN [firstset |-> fs, progress |-> progress]
  ELSE LET s1 == rp.lhs
           s2 == rp.rhs[i + 1]
       IN IF SymType(s2) = "TERMINAL"
            THEN LET a == SetAdd(fs[s1], s2)
                 IN [firstset |-> [fs EXCEPT ![s1] = a.set],
                     progress |-> progress + a.rv]
          ELSE IF s1 = s2
            THEN [firstset |-> fs, progress |-> progress]
          ELSE LET u == SetUnion(fs[s1], fs[s2])
                   fs2 == [fs EXCEPT ![s1] = u.set]
               IN IF ~lam[s2] THEN [firstset |-> fs2, progress |-> progress + u.rv]
                  ELSE FirstScan_selfbreak(rp, i + 1, fs2, progress + u.rv, lam)

(* The inner for-loop of the second do-loop: the RHS of rp from place i on. *)
RECURSIVE FirstScan(_, _, _, _, _)
FirstScan(rp, i, fs, progress, lam) ==
  IF i >= Len(rp.rhs) THEN [firstset |-> fs, progress |-> progress]
  ELSE LET s1 == rp.lhs
           s2 == rp.rhs[i + 1]
       IN IF SymType(s2) = "TERMINAL"
            THEN LET a == SetAdd(fs[s1], s2)
                 IN [firstset |-> [fs EXCEPT ![s1] = a.set],
                     progress |-> progress + a.rv]
          ELSE IF s1 = s2
            THEN IF ~lam[s1] THEN [firstset |-> fs, progress |-> progress]
                 ELSE FirstScan(rp, i + 1, fs, progress, lam)
          ELSE LET u == SetUnion(fs[s1], fs[s2])
                   fs2 == [fs EXCEPT ![s1] = u.set]
               IN IF ~lam[s2] THEN [firstset |-> fs2, progress |-> progress + u.rv]
                  ELSE FirstScan(rp, i + 1, fs2, progress + u.rv, lam)

RECURSIVE FirstPass(_, _, _, _, _)
FirstPass(rules, k, fs, progress, lam) ==
  IF k > Len(rules) THEN [firstset |-> fs, progress |-> progress]
  ELSE LET r == FirstScan(rules[k], 0, fs, progress, lam)
       IN FirstPass(rules, k + 1, r.firstset, r.progress, lam)

RECURSIVE FirstLoop(_, _, _)
FirstLoop(rules, fs, lam) ==
  LET r == FirstPass(rules, 1, fs, 0, lam) IN
  IF r.progress # 0 THEN FirstLoop(rules, r.firstset, lam) ELSE r.firstset

FindFirstSets(rules) ==
  LET lam0 == [i \in 0 .. nsymbol |-> FALSE]
      fs0 == [i \in Nonterminals |-> {}]
      lam == LambdaLoop(rules, lam0)
  IN [lambda |-> lam, firstset |-> FirstLoop(rules, fs0, lam)]

----------------------------------------------------------------------------
(* msort, with the two comparison functions it is called with.  A comparison
   gives rc and ok, ok being FALSE when the assert of actioncmp fails. *)

TypeNum(t) ==
  CASE t = "SHIFT" -> 0 [] t = "ACCEPT" -> 1 [] t = "REDUCE" -> 2
    [] t = "ERROR" -> 3 [] t = "CONFLICT" -> 4 [] t = "SH_RESOLVED" -> 5
    [] t = "RD_RESOLVED" -> 6 [] t = "NOT_USED" -> 7

actioncmp(ap1, ap2) ==
  LET rc1 == ap1.sp - ap2.sp
      rc2 == IF rc1 = 0 THEN TypeNum(ap1.type) - TypeNum(ap2.type) ELSE rc1
  IN IF rc2 = 0
       THEN [rc |-> ap1.x - ap2.x,
             ok |-> ap1.type = "REDUCE" /\ ap2.type = "REDUCE"]
       ELSE [rc |-> rc2, ok |-> TRUE]

Configcmp(a, b) ==
  LET x == a.rp - b.rp
  IN [rc |-> IF x = 0 THEN a.dot - b.dot ELSE x, ok |-> TRUE]

Cmp(kind, a, b) == IF kind = "action" THEN actioncmp(a, b) ELSE Configcmp(a, b)

RECURSIVE merge(_, _, _)
merge(a, b, kind) ==
  IF a = <<>> THEN [list |-> b, ok |-> TRUE]
  ELSE IF b = <<>> THEN [list |-> a, ok |-> TRUE]
  ELSE LET Put(h, r, ok) == [list |-> <<h>> \o r.list, ok |-> ok /\ r.ok]
           Pick(c) == IF c.rc < 0
                        THEN Put(Head(a), merge(Tail(a), b, kind), c.ok)
                        ELSE Put(Head(b), merge(a, Tail(b), kind), c.ok)
       IN Pick(Cmp(kind, Head(a), Head(b)))

(* The inner for-loop of msort: ep is merged with the bins set[0], set[1], ... *)
RECURSIVE msortCarry(_, _, _, _, _)
msortCarry(ep, set, i, kind, ok) ==
  IF i < LISTSIZE - 1 /\ set[i] # <<>>
    THEN LET Carry(m) == msortCarry(m.list, [set EXCEPT ![i] = <<>>], i + 1,
                                    kind, ok /\ m.ok)
         IN Carry(merge(ep, set[i], kind))
    ELSE [set |-> [set EXCEPT ![i] = ep], ok |-> ok]

RECURSIVE msortFill(_, _, _, _)
msortFill(list, set, kind, ok) ==
  IF list = <<>> THEN [set |-> set, ok |-> ok]
  ELSE LET Fill(r) == msortFill(Tail(list), r.set, kind, r.ok)
       IN Fill(msortCarry(<<Head(list)>>, set, 0, kind, ok))

RECURSIVE msortDrain(_, _, _, _, _)
msortDrain(ep, set, i, kind, ok) ==
  IF i >= LISTSIZE THEN [list |-> ep, ok |-> ok]
  ELSE LET Drain(m) == msortDrain(m.list, set, i + 1, kind, ok /\ m.ok)
       IN Drain(IF set[i] # <<>> THEN merge(ep, set[i], kind)
                ELSE [list |-> ep, ok |-> TRUE])

msort(list, kind) ==
  LET Drain(f) == msortDrain(<<>>, f.set, 0, kind, f.ok)
  IN Drain(msortFill(list, [i \in 0 .. (LISTSIZE - 1) |-> <<>>], kind, TRUE))

Action_sort(ap) == msort(ap, "action")

(* A list of configurations, sorted on (rule index, dot). *)
SortConfigs(c, ids) ==
  LET Ids(r) == [k \in 1 .. Len(r) |-> r[k].id]
  IN Ids(msort([k \in 1 .. Len(ids) |->
                  [id |-> ids[k], rp |-> c[ids[k]].rp, dot |-> c[ids[k]].dot]],
               "config").list)

----------------------------------------------------------------------------
(* configlist.c.  W holds the statics of the file (current, basis), the
   table x4a of Configtable_insert, the configurations and lemp->errorcnt. *)

newconfig(rp, dot) ==
  [rp |-> rp, dot |-> dot, fws |-> {}, fplp |-> <<>>, bplp |-> <<>>,
   stp |-> -1, status |-> "UNSET"]

(* The entry with Configcmp = 0, or 0: the newest entry is first in its chain. *)
Configtable_find(W, rp, dot) ==
  LET hit == {k \in 1 .. Len(W.x4a) :
                Configcmp(W.cfg[W.x4a[k]], [rp |-> rp, dot |-> dot]).rc = 0}
  IN IF hit = {} THEN 0
     ELSE W.x4a[CHOOSE k \in hit : \A j \in hit : j <= k]

Configlist_reset(W) == [W EXCEPT !.current = <<>>, !.basis = <<>>, !.x4a = <<>>]

Configlist_add(W, rp, dot) ==
  LET new == Len(W.cfg) + 1
      Add(cfp) ==
        IF cfp # 0 THEN [W |-> W, cfp |-> cfp]
        ELSE [W |-> [W EXCEPT !.cfg = Append(@, newconfig(rp, dot)),
                              !.current = Append(@, new),
                              !.x4a = Append(@, new)],
              cfp |-> new]
  IN Add(Configtable_find(W, rp, dot))

Configlist_addbasis(W, rp, dot) ==
  LET new == Len(W.cfg) + 1
      Add(cfp) ==
        IF cfp # 0 THEN [W |-> W, cfp |-> cfp]
        ELSE [W |-> [W EXCEPT !.cfg = Append(@, newconfig(rp, dot)),
                              !.current = Append(@, new),
                              !.basis = Append(@, new),
                              !.x4a = Append(@, new)],
              cfp |-> new]
  IN Add(Configtable_find(W, rp, dot))

Plink_add(plp, cfp) == <<cfp>> \o plp

RECURSIVE Plink_copy(_, _)
Plink_copy(to, from) ==
  IF from = <<>> THEN to ELSE Plink_copy(<<Head(from)>> \o to, Tail(from))

(* The for-loop of Configlist_closure over rp->rhs[i], i > dot: the follow set
   of the new configuration, and whether the loop ran to the end of the rule. *)
RECURSIVE FollowScan(_, _, _, _)
FollowScan(G, rp, i, fws) ==
  IF i >= Len(rp.rhs) THEN [fws |-> fws, atend |-> TRUE]
  ELSE LET xsp == rp.rhs[i + 1]
       IN IF SymType(xsp) = "TERMINAL"
            THEN [fws |-> SetAdd(fws, xsp).set, atend |-> FALSE]
            ELSE LET u == SetUnion(fws, G.firstset[xsp]).set
                 IN IF ~G.lambda[xsp] THEN [fws |-> u, atend |-> FALSE]
                    ELSE FollowScan(G, rp, i + 1, u)

(* ClosureRules that stops at the rule whose nextlhs is null. *)
RECURSIVE ClosureRules_stopearly(_, _, _, _)
ClosureRules_stopearly(G, W, cfp, chain) ==
  IF Len(chain) <= 1 THEN W
  ELSE LET Link(c, newcfp, atend) ==
             IF atend THEN [c EXCEPT ![cfp].fplp = Plink_add(@, newcfp)] ELSE c
           Scan(a, sc) ==
             ClosureRules_stopearly(G, [a.W EXCEPT !.cfg = Link([a.W.cfg EXCEPT ![a.cfp].fws = sc.fws],
                                              a.cfp, sc.atend)],
                  cfp, Tail(chain))
           Add(a) ==
             Scan(a, FollowScan(G, Rp(G.rule, a.W.cfg[cfp].rp), a.W.cfg[cfp].dot + 1,
                                a.W.cfg[a.cfp].fws))
       IN Add(Configlist_add(W, Head(chain), 0))

(* The loop over the rules newrp of the symbol after the dot of cfp. *)
RECURSIVE ClosureRules(_, _, _, _)
ClosureRules(G, W, cfp, chain) ==
  IF chain = <<>> THEN W
  ELSE LET Link(c, newcfp, atend) ==
             IF atend THEN [c EXCEPT ![cfp].fplp = Plink_add(@, newcfp)] ELSE c
           Scan(a, sc) ==
             ClosureRules(G, [a.W EXCEPT !.cfg = Link([a.W.cfg EXCEPT ![a.cfp].fws = sc.fws],
                                              a.cfp, sc.atend)],
                  cfp, Tail(chain))
           Add(a) ==
             Scan(a, FollowScan(G, Rp(G.rule, a.W.cfg[cfp].rp), a.W.cfg[cfp].dot + 1,
                                a.W.cfg[a.cfp].fws))
       IN Add(Configlist_add(W, Head(chain), 0))

(* Configlist_closure from place k of the list current, which grows. *)
RECURSIVE Configlist_closure(_, _, _)
Configlist_closure(G, W, k) ==
  IF k > Len(W.current) THEN W
  ELSE LET cfp == W.current[k]
           rp == Rp(G.rule, W.cfg[cfp].rp)
           dot == W.cfg[cfp].dot
           Rules(sp, chain) ==
             Configlist_closure(G,
                                ClosureRules(G,
                                             IF chain = <<>> /\ sp # errsym
                                               THEN [W EXCEPT !.errorcnt = @ + 1]
                                               ELSE W,
                                             cfp, chain),
                                k + 1)
       IN IF dot >= Len(rp.rhs) \/ SymType(rp.rhs[dot + 1]) # "NONTERMINAL"
            THEN Configlist_closure(G, W, k + 1)
            ELSE Rules(rp.rhs[dot + 1], SpRule(G.rule, rp.rhs[dot + 1]))

----------------------------------------------------------------------------
(* The state table (table.c) and getstate *)

(* statecmp whose loop advances a and not b. *)
RECURSIVE statecmp_noadvance(_, _, _, _)
statecmp_noadvance(c, a, b, k) ==
  IF k > Len(a) \/ b = <<>>
    THEN IF b # <<>> THEN -1 ELSE IF k <= Len(a) THEN 1 ELSE 0
    ELSE LET rc == Configcmp(c[a[k]], c[b[1]]).rc
         IN IF rc # 0 THEN rc ELSE statecmp_noadvance(c, a, b, k + 1)

(* statecmp on two basis lists, from place k on. *)
RECURSIVE statecmp(_, _, _, _)
statecmp(c, a, b, k) ==
  IF k > Len(a) \/ k > Len(b)
    THEN IF k <= Len(b) THEN -1 ELSE IF k <= Len(a) THEN 1 ELSE 0
    ELSE LET rc == Configcmp(c[a[k]], c[b[k]]).rc
         IN IF rc # 0 THEN rc ELSE statecmp(c, a, b, k + 1)

(* The index of the state whose key compares equal, or -1: the newest entry
   is first in its chain. *)
State_find(tbl, c, key) ==
  LET hit == {k \in 1 .. Len(tbl) : statecmp(c, tbl[k].bp, key, 1) = 0}
  IN IF hit = {} THEN -1
     ELSE tbl[CHOOSE k \in hit : \A j \in hit : j <= k].index

State_insert(tbl, c, data) ==
  IF \E k \in 1 .. Len(tbl) : statecmp(c, tbl[k].bp, data.bp, 1) = 0
    THEN tbl
    ELSE Append(tbl, data)

(* MergeLinks that drops the backward links of the basis under construction. *)
RECURSIVE MergeLinks_dropped(_, _, _, _)
MergeLinks_dropped(c, x, y, k) ==
  IF k > Len(x) \/ k > Len(y) THEN c
  ELSE MergeLinks_dropped([c EXCEPT ![x[k]].fplp = <<>>, ![x[k]].bplp = <<>>],
                          x, y, k + 1)

(* The loop of getstate over the basis x under construction and the basis y
   of the state found. *)
RECURSIVE MergeLinks(_, _, _, _)
MergeLinks(c, x, y, k) ==
  IF k > Len(x) \/ k > Len(y) THEN c
  ELSE MergeLinks([c EXCEPT ![y[k]].bplp = Plink_copy(@, c[x[k]].bplp),
                            ![x[k]].fplp = <<>>,
                            ![x[k]].bplp = <<>>], x, y, k + 1)

(* Configlist_eat: the configurations of the list go back to the free list;
   they are the ones handed out last.  ok is FALSE when an assert fails. *)
Configlist_eat(c, list) ==
  [cfg |-> SubSeq(c, 1, Len(c) - Len(list)),
   ok |-> \A k \in 1 .. Len(list) :
            c[list[k]].fplp = <<>> /\ c[list[k]].bplp = <<>>]

(* getstate up to the call of buildshifts.  isnew tells whether buildshifts
   is called for the state stp. *)
getstate(G, W, tbl) ==
  LET Found(stp, e) ==
        [isnew |-> FALSE, stp |-> stp, cfg |-> e.cfg, tbl |-> tbl,
         errorcnt |-> W.errorcnt, ok |-> e.ok]
      Insert(W1, new) ==
        [isnew |-> TRUE, stp |-> new.index, cfg |-> W1.cfg,
         tbl |-> State_insert(tbl, W1.cfg, new),
         errorcnt |-> W1.errorcnt, ok |-> TRUE]
      New(bp, W1) ==
        Insert(W1, [bp |-> bp, cfp |-> SortConfigs(W1.cfg, W1.current),
                    index |-> Len(tbl), ap |-> <<>>])
      Look(bp, stp) ==
        IF stp # -1
          THEN Found(stp, Configlist_eat(MergeLinks(W.cfg, bp, tbl[stp + 1].bp, 1),
                                         W.current))
          ELSE New(bp, Configlist_closure(G, W, 1))
      Basis(bp) == Look(bp, State_find(tbl, W.cfg, bp))
  IN Basis(SortConfigs(W.cfg, W.basis))

----------------------------------------------------------------------------
(* FindStates and buildshifts *)

Action_add(ap, type, sp, arg) == <<[sp |-> sp, type |-> type, x |-> arg]>> \o ap

(* The start symbol FindStates and FindActions use. *)
StartSymbol(rules, st) ==
  IF st # NoName /\ st # BadName THEN st ELSE Rp(rules, 0).lhs

(* The number of places where sp stands on a right-hand side. *)
CountOnRhs(rules, sp) ==
  Cardinality(UNION {{<<k, i>> : i \in {j \in 1 .. Len(rules[k].rhs) : rules[k].rhs[j] = sp}} :
                       k \in 1 .. Len(rules)})

(* The basis of the first state: the rules of sp in the order of sp->rule. *)
RECURSIVE StartBasis(_, _)
StartBasis(W, chain) ==
  IF chain = <<>> THEN W
  ELSE LET Seed(a) == StartBasis([a.W EXCEPT !.cfg[a.cfp].fws = SetAdd(@, 0).set],
                                 Tail(chain))
       IN Seed(Configlist_addbasis(W, Head(chain), 0))

(* The first statement of buildshifts. *)
MarkIncomplete(c, list) ==
  [id \in 1 .. Len(c) |->
     IF \E k \in 1 .. Len(list) : list[k] = id
       THEN [c[id] EXCEPT !.status = "INCOMPLETE"] ELSE c[id]]

(* CanShift that does not look at the status of the configuration. *)
CanShift_anystatus(rules, c, id) ==
  c[id].dot < Len(Rp(rules, c[id].rp).rhs)

(* The two tests of the loops of buildshifts that skip a configuration. *)
CanShift(rules, c, id) ==
  c[id].status # "COMPLETE" /\ c[id].dot < Len(Rp(rules, c[id].rp).rhs)

(* The place in list, from p on, of the next configuration the outer loop of
   buildshifts does not skip, or 0. *)
NextShift(rules, c, list, p) ==
  LET ok == {q \in p .. Len(list) : CanShift(rules, c, list[q])}
  IN IF ok = {} THEN 0 ELSE CHOOSE q \in ok : \A r \in ok : q <= r

(* The inner loop of buildshifts over the configurations bcfp from place q. *)
RECURSIVE ShiftBasis(_, _, _, _, _)
ShiftBasis(rules, W, list, q, sp) ==
  IF q > Len(list) THEN W
  ELSE LET bcfp == list[q]
           Back(a) == ShiftBasis(rules,
                                 [a.W EXCEPT !.cfg[a.cfp].bplp = Plink_add(@, bcfp)],
                                 list, q + 1, sp)
           Skip(can) ==
             IF ~can \/ Rp(rules, W.cfg[bcfp].rp).rhs[W.cfg[bcfp].dot + 1] # sp
               THEN ShiftBasis(rules, W, list, q + 1, sp)
               ELSE Back(Configlist_addbasis([W EXCEPT !.cfg[bcfp].status = "COMPLETE"],
                                             W.cfg[bcfp].rp, W.cfg[bcfp].dot + 1))
       IN Skip(CanShift(rules, W.cfg, bcfp))

(* Action_add(&stp->ap,SHIFT,sp,newstp) with stp for newstp. *)
AddShift_self(tbl, stp, sp, newstp) ==
  [tbl EXCEPT ![stp + 1].ap = Action_add(@, "SHIFT", sp, stp)]

AddShift(tbl, stp, sp, newstp) ==
  [tbl EXCEPT ![stp + 1].ap = Action_add(@, "SHIFT", sp, newstp)]

----------------------------------------------------------------------------
(* FindLinks and FindFollowSets *)

(* The configurations of all states, in the order the loops over
   lemp->sorted[i]->cfp visit them. *)
RECURSIVE AllConfigs(_, _)
AllConfigs(tbl, i) ==
  IF i > Len(tbl) THEN <<>> ELSE tbl[i].cfp \o AllConfigs(tbl, i + 1)

StateOf(tbl, id) ==
  LET hit == {i \in 1 .. Len(tbl) : \E k \in 1 .. Len(tbl[i].cfp) : tbl[i].cfp[k] = id}
  IN IF hit = {} THEN -1 ELSE tbl[CHOOSE i \in hit : \A j \in hit : j <= i].index

(* The loop over the backward links plp of cfp. *)
RECURSIVE BackToForward(_, _, _)
BackToForward(c, cfp, plp) ==
  IF plp = <<>> THEN c
  ELSE BackToForward([c EXCEPT ![Head(plp)].fplp = Plink_add(@, cfp)], cfp, Tail(plp))

RECURSIVE LinkLoop(_, _, _)
LinkLoop(c, order, k) ==
  IF k > Len(order) THEN c
  ELSE LinkLoop(BackToForward(c, order[k], c[order[k]].bplp), order, k + 1)

FindLinks(c, tbl) ==
  LET At(id, stp) == IF stp # -1 THEN [c[id] EXCEPT !.stp = stp] ELSE c[id]
  IN LinkLoop([id \in 1 .. Len(c) |-> At(id, StateOf(tbl, id))], AllConfigs(tbl, 1), 1)

(* The loop over the forward links plp of cfp. *)
RECURSIVE Propagate(_, _, _, _)
Propagate(c, cfp, plp, progress) ==
  IF plp = <<>> THEN [cfg |-> c, progress |-> progress]
  ELSE LET u == SetUnion(c[Head(plp)].fws, c[cfp].fws)
       IN IF u.rv # 0
            THEN Propagate([c EXCEPT ![Head(plp)].fws = u.set,
                                     ![Head(plp)].status = "INCOMPLETE"],
                           cfp, Tail(plp), 1)
            ELSE Propagate(c, cfp, Tail(plp), progress)

RECURSIVE FollowPass(_, _, _, _)
FollowPass(c, order, k, progress) ==
  IF k > Len(order) THEN [cfg |-> c, progress |-> progress]
  ELSE LET cfp == order[k]
           Done(r) == FollowPass([r.cfg EXCEPT ![cfp].status = "COMPLETE"],
                                 order, k + 1, r.progress)
       IN IF c[cfp].status = "COMPLETE" THEN FollowPass(c, order, k + 1, progress)
          ELSE Done(Propagate(c, cfp, c[cfp].fplp, progress))

RECURSIVE FollowLoop(_, _)
FollowLoop(c, order) ==
  LET Again(r) == IF r.progress # 0 THEN FollowLoop(r.cfg, order) ELSE r.cfg
  IN Again(FollowPass(c, order, 1, 0))

FindFollowSets(c, tbl) ==
  LET Run(order) == FollowLoop(MarkIncomplete(c, order), order)
  IN Run(AllConfigs(tbl, 1))

----------------------------------------------------------------------------
(* FindActions and resolve_conflict *)

(* ReduceOn whose loop ends one terminal early. *)
RECURSIVE ReduceOn_short(_, _, _, _)
ReduceOn_short(ap, fws, rp, j) ==
  IF j >= nterminal - 1 THEN ap
  ELSE ReduceOn_short(IF j \in fws THEN Action_add(ap, "REDUCE", j, rp) ELSE ap,
                      fws, rp, j + 1)

(* The loop over the terminals j of the follow set of a configuration. *)
RECURSIVE ReduceOn(_, _, _, _)
ReduceOn(ap, fws, rp, j) ==
  IF j >= nterminal THEN ap
  ELSE ReduceOn(IF j \in fws THEN Action_add(ap, "REDUCE", j, rp) ELSE ap,
                fws, rp, j + 1)

RECURSIVE ReduceConfigs(_, _, _, _, _)
ReduceConfigs(rules, c, ap, list, k) ==
  IF k > Len(list) THEN ap
  ELSE LET cf == c[list[k]]
       IN ReduceConfigs(rules, c,
                        IF Len(Rp(rules, cf.rp).rhs) = cf.dot
                          THEN ReduceOn(ap, cf.fws, cf.rp, 0) ELSE ap,
                        list, k + 1)

AddReduces(rules, c, tbl) ==
  [i \in 1 .. Len(tbl) |->
     [tbl[i] EXCEPT !.ap = ReduceConfigs(rules, c, @, tbl[i].cfp, 1)]]

(* resolve_shift_reduce with the two precedence comparisons exchanged. *)
resolve_shift_reduce_swapped(same, rules, precs, assocs) ==
  LET spx == same.apx.sp
      spy == Rp(rules, same.apy.x).precsym
  IN IF spy = NoSym \/ precs[spx] < 0 \/ precs[spy] < 0
       THEN [same EXCEPT !.apy.type = "CONFLICT", !.errcnt = 1]
     ELSE IF precs[spx] < precs[spy]
       THEN [same EXCEPT !.apy.type = "RD_RESOLVED"]
     ELSE IF precs[spx] > precs[spy]
       THEN [same EXCEPT !.apx.type = "SH_RESOLVED"]
     ELSE IF assocs[spx] = "RIGHT"
       THEN [same EXCEPT !.apy.type = "RD_RESOLVED"]
     ELSE IF assocs[spx] = "LEFT"
       THEN [same EXCEPT !.apx.type = "SH_RESOLVED"]
     ELSE [same EXCEPT !.apy.type = "CONFLICT", !.errcnt = 1,
                       !.ok = same.ok /\ assocs[spx] = "NONE"]

(* The branch of resolve_conflict for a shift apx and a reduce apy. *)
resolve_shift_reduce(same, rules, precs, assocs) ==
  LET spx == same.apx.sp
      spy == Rp(rules, same.apy.x).precsym
  IN IF spy = NoSym \/ precs[spx] < 0 \/ precs[spy] < 0
       THEN [same EXCEPT !.apy.type = "CONFLICT", !.errcnt = 1]
     ELSE IF precs[spx] > precs[spy]
       THEN [same EXCEPT !.apy.type = "RD_RESOLVED"]
     ELSE IF precs[spx] < precs[spy]
       THEN [same EXCEPT !.apx.type = "SH_RESOLVED"]
     ELSE IF assocs[spx] = "RIGHT"
       THEN [same EXCEPT !.apy.type = "RD_RESOLVED"]
     ELSE IF assocs[spx] = "LEFT"
       THEN [same EXCEPT !.apx.type = "SH_RESOLVED"]
     ELSE [same EXCEPT !.apy.type = "CONFLICT", !.errcnt = 1,
                       !.ok = same.ok /\ assocs[spx] = "NONE"]

(* resolve_reduce_reduce without the test for equal precedences. *)
resolve_reduce_reduce_noequal(same, rules, precs) ==
  LET spx == Rp(rules, same.apx.x).precsym
      spy == Rp(rules, same.apy.x).precsym
  IN IF spx = NoSym \/ spy = NoSym \/ precs[spx] < 0 \/ precs[spy] < 0
       THEN [same EXCEPT !.apy.type = "CONFLICT", !.errcnt = 1]
     ELSE IF precs[spx] > precs[spy]
       THEN [same EXCEPT !.apy.type = "RD_RESOLVED"]
     ELSE IF precs[spx] < precs[spy]
       THEN [same EXCEPT !.apx.type = "RD_RESOLVED"]
     ELSE same

(* The branch of resolve_conflict for two reduces. *)
resolve_reduce_reduce(same, rules, precs) ==
  LET spx == Rp(rules, same.apx.x).precsym
      spy == Rp(rules, same.apy.x).precsym
  IN IF spx = NoSym \/ spy = NoSym \/ precs[spx] < 0 \/ precs[spy] < 0
        \/ precs[spx] = precs[spy]
       THEN [same EXCEPT !.apy.type = "CONFLICT", !.errcnt = 1]
     ELSE IF precs[spx] > precs[spy]
       THEN [same EXCEPT !.apy.type = "RD_RESOLVED"]
     ELSE IF precs[spx] < precs[spy]
       THEN [same EXCEPT !.apx.type = "RD_RESOLVED"]
     ELSE same

resolve_conflict(apx, apy, rules, precs, assocs) ==
  LET same == [apx |-> apx, apy |-> apy, errcnt |-> 0, ok |-> apx.sp = apy.sp]
  IN IF apx.type = "SHIFT" /\ apy.type = "REDUCE"
       THEN resolve_shift_reduce(same, rules, precs, assocs)
     ELSE IF apx.type = "REDUCE" /\ apy.type = "REDUCE"
       THEN resolve_reduce_reduce(same, rules, precs)
     ELSE same

(* The inner loop of the conflict resolution: ap[i] against ap[j], ap[j+1], ...
   as long as the lookahead is the same.  nap is the place the loop stops at. *)
RECURSIVE ResolveInner(_, _, _, _, _, _, _, _)
ResolveInner(ap, i, j, n, ok, rules, precs, assocs) ==
  IF j > Len(ap) \/ ap[j].sp # ap[i].sp
    THEN [ap |-> ap, nap |-> j, n |-> n, ok |-> ok]
    ELSE LET Step(r) ==
               ResolveInner([ap EXCEPT ![i] = r.apx, ![j] = r.apy], i, j + 1,
                            n + r.errcnt, ok /\ r.ok, rules, precs, assocs)
         IN Step(resolve_conflict(ap[i], ap[j], rules, precs, assocs))

RECURSIVE ResolveOuter(_, _, _, _, _, _, _)
ResolveOuter(ap, i, n, ok, rules, precs, assocs) ==
  IF i > Len(ap) \/ i + 1 > Len(ap) THEN [ap |-> ap, n |-> n, ok |-> ok]
  ELSE LET Step(r) == ResolveOuter(r.ap, r.nap, r.n, r.ok, rules, precs, assocs)
       IN Step(ResolveInner(ap, i, i + 1, n, ok, rules, precs, assocs))

(* The body of the loop over the states: the sort and the resolution. *)
ResolveState(stp, rules, precs, assocs) ==
  LET Resolved(r, sorted) ==
        [stp |-> [stp EXCEPT !.ap = r.ap], n |-> r.n,
         ok |-> stp.ap # <<>> /\ sorted /\ r.ok]
      Sorted(s) ==
        Resolved(ResolveOuter(s.list, 1, 0, TRUE, rules, precs, assocs), s.ok)
  IN Sorted(Action_sort(stp.ap))

RECURSIVE SumN(_, _)
SumN(rs, i) == IF i > Len(rs) THEN 0 ELSE rs[i].n + SumN(rs, i + 1)

ResolveAll(tbl, rules, precs, assocs) ==
  LET All(rs) == [tbl |-> [i \in 1 .. Len(tbl) |-> rs[i].stp],
                  n |-> SumN(rs, 1),
                  ok |-> \A i \in 1 .. Len(tbl) : rs[i].ok]
  IN All([i \in 1 .. Len(tbl) |-> ResolveState(tbl[i], rules, precs, assocs)])

(* rp->canReduce with the reduces that lost a conflict taken for reduces. *)
CanReduce_resolved(tbl, k) ==
  \E i \in 1 .. Len(tbl) : \E a \in 1 .. Len(tbl[i].ap) :
     tbl[i].ap[a].type \in {"REDUCE", "RD_RESOLVED", "CONFLICT"} /\ tbl[i].ap[a].x = k

(* rp->canReduce after the loops over the actions of all states. *)
CanReduce(tbl, k) ==
  \E i \in 1 .. Len(tbl) : \E a \in 1 .. Len(tbl[i].ap) :
     tbl[i].ap[a].type = "REDUCE" /\ tbl[i].ap[a].x = k

(* The last loop of FindActions: one message for each rule, in the order of
   the rules, that no REDUCE action has. *)
RECURSIVE CanNotReduce(_, _, _, _)
CanNotReduce(out, tbl, rules, k) ==
  IF k >= Len(rules) THEN out
  ELSE CanNotReduce(IF CanReduce(tbl, k) THEN out
                    ELSE ErrorMsg(out, "This rule can not be reduced.", k),
                    tbl, rules, k + 1)

----------------------------------------------------------------------------
(* CompressTables *)

Reduces(ap) == {a \in 1 .. Len(ap) : ap[a].type = "REDUCE"}

(* The first for-loop: the first REDUCE action of the list. *)
FirstReduce(ap) == CHOOSE f \in Reduces(ap) : \A a \in Reduces(ap) : f <= a

(* The second loop with any two REDUCE actions of one rule taken as enough. *)
SameRule_shared(ap, f) ==
  \E a, b \in Reduces(ap) : a # b /\ ap[a].x = ap[b].x

(* The second loop: it ends with ap == 0, no REDUCE action after the first
   being of another rule. *)
SameRule(ap, f) == \A a \in Reduces(ap) : ap[a].x = ap[f].x

(* The third and the fourth loop. *)
MakeDefault(ap, f) ==
  [a \in 1 .. Len(ap) |->
     IF a = f THEN [ap[a] EXCEPT !.sp = nsymbol]
     ELSE IF a > f /\ ap[a].type = "REDUCE" THEN [ap[a] EXCEPT !.type = "NOT_USED"]
     ELSE ap[a]]

(* The body of the loop over the states. *)
CompressState(stp) ==
  IF Reduces(stp.ap) = {} THEN [stp |-> stp, ok |-> TRUE]
  ELSE LET Sorted(l) == [stp |-> [stp EXCEPT !.ap = l.list], ok |-> l.ok]
           Pack(f) ==
             IF ~SameRule(stp.ap, f) \/ Cardinality(Reduces(stp.ap)) = 1
               THEN [stp |-> stp, ok |-> TRUE]
               ELSE Sorted(Action_sort(MakeDefault(stp.ap, f)))
       IN Pack(FirstReduce(stp.ap))

CompressTables(tbl) ==
  LET All(rs) == [tbl |-> [i \in 1 .. Len(tbl) |-> rs[i].stp],
                  ok |-> \A i \in 1 .. Len(tbl) : rs[i].ok]
  IN All([i \in 1 .. Len(tbl) |-> CompressState(tbl[i])])

----------------------------------------------------------------------------
(* The grammars the analysis is run on: the state main() is in when Parse has
   returned without error and the symbols are indexed.  Every symbol of the
   model is in the symbol table (a %type declaration creates a nonterminal, a
   %left declaration a terminal, whether or not a rule uses it). *)

TermA == CHOOSE t \in Terminals : \A u \in Terminals : t <= u
TermB == TermA + 1
SymS == errsym + 1
SymX == errsym + 2

R(l, r) == [lhs |-> l, rhs |-> r, precsym |-> NoSym, canReduce |-> FALSE]
RP(l, r, p) == [lhs |-> l, rhs |-> r, precsym |-> p, canReduce |-> FALSE]

SeqsOver(S, n) == UNION {[1 .. k -> S] : k \in 0 .. n}
RulesOver(L, S, n) == {R(l, r) : l \in L, r \in SeqsOver(S, n)}
GrammarsOver(M, n) == UNION {[1 .. k -> M] : k \in 1 .. n}

(* Grammars of up to MaxRules rules over one terminal and the nonterminals s
   and x, the first rule being one of s. *)
EnumGrammars ==
  {g \in GrammarsOver(RulesOver({SymS, SymX}, {TermA, SymX}, MaxRhs), MaxRules) :
     g[1].lhs = SymS}

(* Grammars of fewer rules over both terminals, whose start symbol may stand
   on a right-hand side. *)
SmallGrammars ==
  GrammarsOver(RulesOver({SymS, SymX}, {TermA, TermB, SymS, SymX}, MaxRhs),
               MaxRules - 1)

(* Grammars for the %start_symbol declaration. *)
StartGrammars ==
  GrammarsOver(RulesOver({SymS, SymX}, {TermA, SymX}, MaxRhs), MaxRules - 1)

StartNames == {BadName, TermA, errsym, SymS, SymX}

(* Grammars with conflicts that precedences may resolve, with more than one
   reduce on a lookahead, with the error symbol, and with a precedence mark. *)
GExpr == <<R(SymS, <<SymX>>), R(SymX, <<SymX, TermB, SymX>>), R(SymX, <<TermA>>)>>
GExpr2 == <<R(SymS, <<SymX>>), R(SymX, <<SymX, TermA, SymX>>),
            R(SymX, <<SymX, TermB, SymX>>), R(SymX, <<TermA>>)>>
GExprStart == <<R(SymX, <<SymX, TermB, SymX>>), R(SymX, <<TermA>>)>>
GMark == <<R(SymS, <<SymX>>), RP(SymX, <<SymX, TermB, SymX>>, TermA), R(SymX, <<TermA>>)>>
GElse == <<R(SymS, <<SymX>>), R(SymX, <<TermA, SymX>>),
           R(SymX, <<TermA, SymX, TermB, SymX>>), R(SymX, <<>>)>>
GShiftTwoReduce == <<R(SymS, <<SymX, TermA>>), R(SymX, <<TermA>>),
                     R(SymX, <<>>), R(SymX, <<>>)>>
GReduceMarks == <<R(SymS, <<SymX, TermA>>), R(SymS, <<TermB, TermA>>),
                  RP(SymX, <<TermB>>, TermA), RP(SymX, <<TermB>>, TermB),
                  RP(SymS, <<TermB>>, TermB)>>
GError == <<R(SymS, <<errsym, TermA>>), R(SymS, <<SymX>>), R(SymX, <<TermB>>),
            R(errsym, <<TermB>>)>>
GUnproductive == <<R(SymS, <<SymX, SymS>>), R(SymX, <<TermA>>), R(SymS, <<SymS, TermB>>)>>

GMixedReduce == <<R(SymS, <<SymX, TermA>>), R(SymS, <<SymX, TermB>>),
                  R(SymS, <<errsym>>), R(SymX, <<TermA>>), R(errsym, <<TermA>>)>>

GAssert == <<R(SymS, <<SymX, SymS>>), R(SymX, <<SymS>>)>>

(* Three rules that reduce in the start state on both lookaheads. *)
GThreeReduce == <<R(SymS, <<SymX>>), R(SymS, <<SymX, TermA>>),
                  R(SymX, <<>>), R(SymX, <<>>), R(SymX, <<>>)>>

CorpusGrammars ==
  {GExpr, GExpr2, GExprStart, GMark, GElse, GShiftTwoReduce, GReduceMarks,
   GError, GUnproductive, GMixedReduce, GAssert, GThreeReduce}

----------------------------------------------------------------------------
(* The grammar parser.  The scanner of Parse hands the tokens to
   parseonetoken one by one.  A token is its first character's class (t), the
   symbol it names if it is the name of a symbol (name) and its text where the
   parser compares it with a keyword (word).  The text of an alias and of a
   code fragment is not kept, the rules that have a code fragment are
   (coded). *)

MAXRHS == 1000

Tok(t, name, word) == [t |-> t, name |-> name, word |-> word]
Id(sp) == Tok(IF sp \in Terminals THEN "UPPER" ELSE "lower", sp, "")
Kw(w) == Tok("lower", NoSym, w)
Punct(c) == Tok(c, NoSym, c)

IsAlpha(x) == x.t \in {"UPPER", "lower"}

(* A declaration argument slot: the keyword, and the symbol for the slots of
   %destructor and %type. *)
Slot(kw, sp) == [kw |-> kw, sp |-> sp]
NoSlot == Slot("", NoSym)

ArgKeywords ==
  {"name", "include", "code", "token_destructor", "token_prefix",
   "syntax_error", "parse_accept", "parse_failure", "stack_overflow",
   "extra_argument", "token_type", "stack_size", "start_symbol"}

(* The pstate Parse starts with, with what it reaches through ps.gp and the
   symbol table: the symbols main() has made before. *)
NewParse(text) ==
  [state |-> "INITIALIZE", lhs |-> NoSym, rhs |-> <<>>, prevrule |-> NoSym,
   declkeyword |-> "", declargslot |-> NoSlot, declassoc |-> "UNK",
   preccounter |-> 0, errorcnt |-> 0, firstrule |-> <<>>,
   nrule |-> 0, index |-> <<>>, symrule |-> [sp \in 0 .. nsymbol |-> <<>>],
   coded |-> {},
   filled |-> {}, tokenprefix |-> "", symbols |-> {0, errsym}, text |-> text]

(* What is left of it when Parse has returned from a grammar that declares
   every symbol of the model. *)
NoParse ==
  [NewParse(<<>>) EXCEPT !.state = "WAITING_FOR_DECL_OR_RULE",
                         !.symbols = 0 .. (nsymbol - 1)]

(* ErrorMsg(...); psp->errorcnt++; psp->state = ... *)
ParseError(P, msg, state) ==
  [P EXCEPT !.out = ErrorMsg(@, msg, NoSym), !.errorcnt = @ + 1, !.state = state]

Symbol_new(P, x) == [P EXCEPT !.symbols = @ \cup {x.name}]

(* case PRECEDENCE_MARK_1, the last branch *)
PrecedenceMark(P, x) ==
  [Symbol_new(P, x) EXCEPT !.firstrule[P.prevrule + 1].precsym = x.name]

(* case IN_RHS, on the "." that ends the rule: the rule goes to the end of
   the list that starts at firstrule, gets the index nrule and becomes the
   head of the chain of its left-hand side (symrule is sp->rule followed
   along nextlhs).  A rule is named by its place in the list, from 0. *)
NewRule(P) ==
  [P EXCEPT !.firstrule = Append(@, R(P.lhs, P.rhs)),
            !.index = Append(@, P.nrule),
            !.nrule = @ + 1,
            !.symrule[P.lhs] = <<Len(P.firstrule)>> \o @,
            !.prevrule = Len(P.firstrule),
            !.state = "WAITING_FOR_DECL_OR_RULE"]

(* case WAITING_FOR_DECL_OR_RULE, on a code fragment *)
CodeFragment(P) ==
  IF P.prevrule = NoSym
    THEN ParseError(P, "There is not prior rule opon which to attach the code fragment.",
                    "WAITING_FOR_DECL_OR_RULE")
  ELSE IF P.prevrule \in P.coded
    THEN ParseError(P, "Code fragment beginning on this line is not the first to follow the previous rule.",
                    "WAITING_FOR_DECL_OR_RULE")
  ELSE [P EXCEPT !.coded = @ \cup {P.prevrule}, !.state = "WAITING_FOR_DECL_OR_RULE"]

(* case WAITING_FOR_PRECEDENCE_SYMBOL with a precedence given again. *)
PrecedenceSymbol_again(P, x) ==
  IF x.t = "." THEN [P EXCEPT !.state = "WAITING_FOR_DECL_OR_RULE"]
  ELSE IF x.t = "UPPER"
    THEN [Symbol_new(P, x) EXCEPT !.prec[x.name] = P.preccounter,
                                  !.assoc[x.name] = P.declassoc]
  ELSE ParseError(P, "Can't assign a precedence.", P.state)

(* case WAITING_FOR_PRECEDENCE_SYMBOL *)
PrecedenceSymbol(P, x) ==
  IF x.t = "." THEN [P EXCEPT !.state = "WAITING_FOR_DECL_OR_RULE"]
  ELSE IF x.t = "UPPER"
    THEN IF P.prec[x.name] >= 0
           THEN ParseError(P, "Symbol has already be given a precedence.", P.state)
           ELSE [Symbol_new(P, x) EXCEPT !.prec[x.name] = P.preccounter,
                                         !.assoc[x.name] = P.declassoc]
  ELSE ParseError(P, "Can't assign a precedence.", P.state)

(* The two resync cases with the "%" left out. *)
Resync_dotonly(P, x) ==
  IF x.t = "." THEN [P EXCEPT !.state = "WAITING_FOR_DECL_OR_RULE"]
  ELSE P

(* case RESYNC_AFTER_RULE_ERROR, which falls through to
   case RESYNC_AFTER_DECL_ERROR *)
Resync(P, x) ==
  IF x.t = "%" THEN [P EXCEPT !.state = "WAITING_FOR_DECL_KEYWORD"]
  ELSE IF x.t = "." THEN [P EXCEPT !.state = "WAITING_FOR_DECL_OR_RULE"]
  ELSE P

(* case WAITING_FOR_DECL_KEYWORD *)
DeclKeyword(P, x) ==
  IF ~IsAlpha(x)
    THEN ParseError(P, "Illegal declaration keyword.", "RESYNC_AFTER_DECL_ERROR")
  ELSE IF x.word \in ArgKeywords
    THEN [P EXCEPT !.declkeyword = x.word, !.declargslot = Slot(x.word, NoSym),
                   !.state = "WAITING_FOR_DECL_ARG"]
  ELSE IF x.word \in {"left", "right", "nonassoc"}
    THEN [P EXCEPT !.declkeyword = x.word, !.declargslot = NoSlot,
                   !.preccounter = @ + 1,
                   !.declassoc = CASE x.word = "left" -> "LEFT"
                                   [] x.word = "right" -> "RIGHT"
                                   [] OTHER -> "NONE",
                   !.state = "WAITING_FOR_PRECEDENCE_SYMBOL"]
  ELSE IF x.word = "destructor"
    THEN [P EXCEPT !.declkeyword = x.word, !.declargslot = NoSlot,
                   !.state = "WAITING_FOR_DESTRUCTOR_SYMBOL"]
  ELSE IF x.word = "type"
    THEN [P EXCEPT !.declkeyword = x.word, !.declargslot = NoSlot,
                   !.state = "WAITING_FOR_DATATYPE_SYMBOL"]
  ELSE ParseError([P EXCEPT !.declkeyword = x.word, !.declargslot = NoSlot],
                  "Unknown declaration keyword.", "RESYNC_AFTER_DECL_ERROR")

(* case WAITING_FOR_DECL_ARG *)
DeclArg(P, x) ==
  IF x.t \in {"{", "\"", "UPPER", "lower", "digit"}
    THEN IF P.declargslot \in P.filled
           THEN ParseError(P, "The argument to the declaration is not the first.",
                           "RESYNC_AFTER_DECL_ERROR")
           ELSE [P EXCEPT !.filled = @ \cup {P.declargslot},
                          !.start = IF P.declargslot.kw = "start_symbol"
                                      THEN (IF x.name = NoSym THEN BadName ELSE x.name)
                                      ELSE @,
                          !.tokenprefix = IF P.declargslot.kw = "token_prefix"
                                            THEN x.word ELSE @,
                          !.state = "WAITING_FOR_DECL_OR_RULE"]
    ELSE ParseError(P, "Illegal argument to the declaration.",
                    "RESYNC_AFTER_DECL_ERROR")

(* P is the pstate together with prec, assoc and start of the symbols and of
   lemp, and stdout (out). *)
parseonetoken(P, x) ==
  CASE P.state \in {"INITIALIZE", "WAITING_FOR_DECL_OR_RULE"} ->
         IF x.t = "%" THEN [P EXCEPT !.state = "WAITING_FOR_DECL_KEYWORD"]
         ELSE IF x.t = "lower"
           THEN [Symbol_new(P, x) EXCEPT !.lhs = x.name, !.rhs = <<>>,
                                         !.state = "WAITING_FOR_ARROW"]
         ELSE IF x.t = "{" THEN CodeFragment(P)
         ELSE IF x.t = "[" THEN [P EXCEPT !.state = "PRECEDENCE_MARK_1"]
         ELSE ParseError(P, "Token should be either % or a nonterminal name.",
                         "WAITING_FOR_DECL_OR_RULE")
    [] P.state = "PRECEDENCE_MARK_1" ->
         IF x.t # "UPPER"
           THEN ParseError(P, "The precedence symbol must be a terminal.",
                           "PRECEDENCE_MARK_2")
         ELSE IF P.prevrule = NoSym
           THEN ParseError(P, "There is no prior rule to assign precedence.",
                           "PRECEDENCE_MARK_2")
         ELSE IF P.firstrule[P.prevrule + 1].precsym # NoSym
           THEN ParseError(P, "Precedence mark on this line is not the first to follow the previous rule.",
                           "PRECEDENCE_MARK_2")
         ELSE [PrecedenceMark(P, x) EXCEPT !.state = "PRECEDENCE_MARK_2"]
    [] P.state = "PRECEDENCE_MARK_2" ->
         IF x.t # "]"
           THEN ParseError(P, "Missing ] on precedence mark.", "WAITING_FOR_DECL_OR_RULE")
           ELSE [P EXCEPT !.state = "WAITING_FOR_DECL_OR_RULE"]
    [] P.state = "WAITING_FOR_ARROW" ->
         IF x.t = "::=" THEN [P EXCEPT !.state = "IN_RHS"]
         ELSE IF x.t = "(" THEN [P EXCEPT !.state = "LHS_ALIAS_1"]
         ELSE ParseError(P, "Expected to see a : following the LHS symbol.",
                         "RESYNC_AFTER_RULE_ERROR")
    [] P.state = "LHS_ALIAS_1" ->
         IF IsAlpha(x) THEN [P EXCEPT !.state = "LHS_ALIAS_2"]
         ELSE ParseError(P, "Not a valid alias for the LHS.", "RESYNC_AFTER_RULE_ERROR")
    [] P.state = "LHS_ALIAS_2" ->
         IF x.t = ")" THEN [P EXCEPT !.state = "LHS_ALIAS_3"]
         ELSE ParseError(P, "Missing ) following LHS alias name.",
                         "RESYNC_AFTER_RULE_ERROR")
    [] P.state = "LHS_ALIAS_3" ->
         IF x.t = "::=" THEN [P EXCEPT !.state = "IN_RHS"]
         ELSE ParseError(P, "Missing -> following the LHS and its alias.",
                         "RESYNC_AFTER_RULE_ERROR")
    [] P.state = "RHS_ALIAS_1" ->
         IF IsAlpha(x) THEN [P EXCEPT !.state = "RHS_ALIAS_2"]
         ELSE ParseError(P, "Not a valid alias for the RHS symbol.",
                         "RESYNC_AFTER_RULE_ERROR")
    [] P.state = "RHS_ALIAS_2" ->
         IF x.t = ")" THEN [P EXCEPT !.state = "IN_RHS"]
         ELSE ParseError(P, "Missing ) following LHS alias name.",
                         "RESYNC_AFTER_RULE_ERROR")
    [] P.state = "IN_RHS" ->
         IF x.t = "." THEN NewRule(P)
         ELSE IF IsAlpha(x)
           THEN IF Len(P.rhs) >= MAXRHS
                  THEN ParseError(P, "Too many symbol on RHS or rule.",
                                  "RESYNC_AFTER_RULE_ERROR")
                  ELSE [Symbol_new(P, x) EXCEPT !.rhs = Append(@, x.name)]
         ELSE IF x.t = "(" /\ Len(P.rhs) > 0 THEN [P EXCEPT !.state = "RHS_ALIAS_1"]
         ELSE ParseError(P, "Illegal character on RHS of rule.",
                         "RESYNC_AFTER_RULE_ERROR")
    [] P.state = "WAITING_FOR_DECL_KEYWORD" -> DeclKeyword(P, x)
    [] P.state \in {"WAITING_FOR_DESTRUCTOR_SYMBOL", "WAITING_FOR_DATATYPE_SYMBOL"} ->
         IF ~IsAlpha(x)
           THEN ParseError(P, "Symbol name missing after %destructor keyword",
                           "RESYNC_AFTER_DECL_ERROR")
           ELSE [Symbol_new(P, x) EXCEPT
                   !.declargslot =
                     Slot(IF P.state = "WAITING_FOR_DESTRUCTOR_SYMBOL"
                            THEN "destructor" ELSE "type", x.name),
                   !.state = "WAITING_FOR_DECL_ARG"]
    [] P.state = "WAITING_FOR_PRECEDENCE_SYMBOL" -> PrecedenceSymbol(P, x)
    [] P.state = "WAITING_FOR_DECL_ARG" -> DeclArg(P, x)
    [] P.state \in {"RESYNC_AFTER_RULE_ERROR", "RESYNC_AFTER_DECL_ERROR"} ->
         Resync(P, x)

(* The scanner of Parse on a text of lexemes: it skips white space and, from
   "//" on, the rest of the line. *)
RECURSIVE SkipLine(_)
SkipLine(text) ==
  IF text = <<>> \/ Head(text).t = "\n" THEN text ELSE SkipLine(Tail(text))

RECURSIVE SkipSpace(_)
SkipSpace(text) ==
  IF text = <<>> THEN text
  ELSE IF Head(text).t = "\n" THEN SkipSpace(Tail(text))
  ELSE IF Head(text).t = "//" THEN SkipSpace(SkipLine(Tail(text)))
  ELSE text

(* The loop of Parse over the buffer, P.text being what is left of it: the
   next token is handed to parseonetoken, and the scan goes on behind it. *)
RECURSIVE ParseLoop(_)
ParseLoop(P) ==
  LET Loop(rest) ==
        IF rest = <<>> THEN P
        ELSE ParseLoop(parseonetoken([P EXCEPT !.text = Tail(rest)], Head(rest)))
  IN Loop(SkipSpace(P.text))

(* gp->rule = ps.firstrule, the last but one statement of Parse.  The case
   INITIALIZE sets ps.firstrule when parseonetoken gets its first token; Parse
   on a buffer without a token reads the variable as the stack left it: null,
   or a pointer to no rule (WildRule). *)
WildRule == <<R(NoSym, <<>>)>>

ParseReturn(P) ==
  IF P.state = "INITIALIZE" THEN {<<>>, WildRule} ELSE {P.firstrule}

(* The text printf has written, as the scanner reads it: "%s" with the name
   of a symbol is an identifier, any other piece is itself. *)
Lexeme(e) == IF e.msg = "%s" THEN Id(e.arg) ELSE Tok(e.msg, e.arg, e.msg)
TextOf(out) == [i \in 1 .. Len(out) |-> Lexeme(out[i])]

----------------------------------------------------------------------------
(* Reprint *)

printf(msg, arg) == Say("printf", msg, arg)

RECURSIVE SymbolRow(_, _)
SymbolRow(j, skip) ==
  IF j >= nsymbol THEN <<>>
  ELSE <<printf(" %3d %-*.*s", j)>> \o SymbolRow(j + skip, skip)

RECURSIVE SymbolRows(_, _)
SymbolRows(i, skip) ==
  IF i >= skip THEN <<>>
  ELSE <<printf("//", NoSym)>> \o SymbolRow(i, skip) \o <<printf("\n", NoSym)>>
       \o SymbolRows(i + 1, skip)

(* One turn of the loop over the rules. *)
ReprintRule(rp) ==
  <<printf("%s", rp.lhs), printf("::=", NoSym)>>
    \o [i \in 1 .. Len(rp.rhs) |-> printf("%s", rp.rhs[i])]
    \o <<printf(".", NoSym)>>
    \o (IF rp.precsym # NoSym
          THEN <<printf("[", NoSym), printf("%s", rp.precsym), printf("]", NoSym)>>
          ELSE <<>>)
    \o <<printf("\n", NoSym)>>

RECURSIVE ReprintRules(_, _)
ReprintRules(rules, k) ==
  IF k > Len(rules) THEN <<>>
  ELSE ReprintRule(rules[k]) \o ReprintRules(rules, k + 1)

(* What Reprint writes to stdout.  No name of the model is longer than 10
   characters, so maxlen is 10 and ncolumns is 76/15. *)
Reprint(rules) ==
  <<printf("//", NoSym), printf("\n", NoSym), printf("//", NoSym), printf("\n", NoSym)>>
    \o SymbolRows(0, (nsymbol + (76 \div 15) - 1) \div (76 \div 15))
    \o ReprintRules(rules, 1)

----------------------------------------------------------------------------
(* The precedences and associativities %left, %right and %nonassoc
   declarations can give the two terminals: a declaration gives its terminals
   one precedence and one associativity. *)
PrecChoice ==
  {[p |-> -1, a |-> "UNK"]} \cup {[p |-> n, a |-> x] : n \in 1 .. MaxPrec, x \in AssocOf}

PrecConfigs ==
  {[prec |-> [i \in 0 .. nsymbol |->
                IF i = TermA THEN ca.p ELSE IF i = TermB THEN cb.p ELSE -1],
    assoc |-> [i \in 0 .. nsymbol |->
                IF i = TermA THEN ca.a ELSE IF i = TermB THEN cb.a ELSE "UNK"]] :
     <<ca, cb>> \in {c \in PrecChoice \X PrecChoice : c[1].p = c[2].p => c[1].a = c[2].a}}

NoPrec == [i \in 0 .. nsymbol |-> -1]
NoAssoc == [i \in 0 .. nsymbol |-> "UNK"]
NoCall == [done |-> FALSE]

InitAnalysis ==
  /\ lambda = [i \in 0 .. nsymbol |-> FALSE]
  /\ firstset = <<>>
  /\ cfg = <<>>
  /\ x3a = <<>>
  /\ stack = <<>>
  /\ errorcnt = 0
  /\ nconflict = 0
  /\ aborted = FALSE
  /\ call = NoCall
  /\ InitRun

InitEnum ==
  /\ rule \in EnumGrammars \cup SmallGrammars
  /\ prec = NoPrec
  /\ assoc = NoAssoc
  /\ start = NoName

InitStart ==
  /\ rule \in StartGrammars
  /\ prec = NoPrec
  /\ assoc = NoAssoc
  /\ start \in StartNames

InitCorpus ==
  /\ rule \in CorpusGrammars
  /\ \E c \in PrecConfigs : prec = c.prec /\ assoc = c.assoc
  /\ start = NoName

Init ==
  /\ pc = "FindRulePrecedences"
  /\ \/ InitEnum /\ opt = NoOptions
     \/ InitStart /\ opt = NoOptions
     \/ InitCorpus /\ opt \in {[NoOptions EXCEPT !.compress = c] : c \in BOOLEAN}
  /\ disk = NoDisk
  /\ ps = NoParse
  /\ InitAnalysis
  /\ NoSymbols

----------------------------------------------------------------------------
(* The phases of main() *)

G == [rule |-> rule, lambda |-> lambda, firstset |-> firstset]

W == [cfg |-> cfg, current |-> <<>>, basis |-> <<>>, x4a |-> <<>>,
      errorcnt |-> errorcnt]

DoFindRulePrecedences ==
  /\ pc = "FindRulePrecedences"
  /\ rule' = FindRulePrecedences(rule, prec)
  /\ pc' = "FindFirstSets"
  /\ UNCHANGED <<prec, assoc, start, lambda, firstset, cfg, x3a, stack,
                 errorcnt, nconflict, aborted, call,
                 opt, exitcode, stdout, stderr, opened, disk, ps>>
  /\ UNCHANGED <<x2a, lem>>

DoFindFirstSets ==
  /\ pc = "FindFirstSets"
  /\ \E r \in {FindFirstSets(rule)} : lambda' = r.lambda /\ firstset' = r.firstset
  /\ pc' = "FindStates"
  /\ UNCHANGED <<rule, prec, assoc, start, cfg, x3a, stack, errorcnt,
                 nconflict, aborted, call,
                 opt, exitcode, stdout, stderr, opened, disk, ps>>
  /\ UNCHANGED <<x2a, lem>>

(* FindStates up to the call of buildshifts for the first state. *)
DoFindStates ==
  /\ pc = "FindStates"
  /\ \E sp \in {StartSymbol(rule, start)} :
       \E g \in {getstate(G,
                          StartBasis([W EXCEPT !.errorcnt =
                                        @ + (IF start = BadName THEN 1 ELSE 0)
                                          + CountOnRhs(rule, sp)],
                                     SpRule(rule, sp)),
                          x3a)} :
         /\ cfg' = MarkIncomplete(g.cfg, g.tbl[g.stp + 1].cfp)
         /\ x3a' = g.tbl
         /\ errorcnt' = g.errorcnt
         /\ stdout' = ErrorMsgs(ErrorMsgs(ErrorMsgs(stdout,
                           "The specified start symbol is not in a nonterminal of the grammar.",
                           IF start = BadName THEN 1 ELSE 0),
                           "The start symbol occurs on the right-hand side of a rule.",
                           CountOnRhs(rule, sp)),
                           "Nonterminal has no rules.",
                           g.errorcnt - errorcnt - CountOnRhs(rule, sp)
                             - (IF start = BadName THEN 1 ELSE 0))
         /\ stack' = <<[stp |-> g.stp, cur |-> 1, sp |-> NoSym]>>
  /\ pc' = "buildshifts"
  /\ UNCHANGED <<exitcode, stderr>>
  /\ UNCHANGED <<rule, prec, assoc, start, lambda, firstset, nconflict,
                 aborted, call,
                 opt, opened, disk, ps>>
  /\ UNCHANGED <<x2a, lem>>

Top == stack[Len(stack)]

(* One turn of the outer loop of buildshifts in the innermost call: the basis
   of a successor, and getstate for it.  A state that is new starts a call of
   buildshifts; its shift action is added when that call returns. *)
BuildShiftsIter ==
  /\ pc = "buildshifts"
  /\ stack # <<>>
  /\ \E list \in {x3a[Top.stp + 1].cfp} :
     \E p \in {NextShift(rule, cfg, list, Top.cur)} :
       /\ p # 0
       /\ \E sp \in {Rp(rule, cfg[list[p]].rp).rhs[cfg[list[p]].dot + 1]} :
          \E g \in {getstate(G, ShiftBasis(rule, Configlist_reset(W), list, p, sp), x3a)} :
          \E here \in {[Top EXCEPT !.cur = p + 1, !.sp = sp]} :
            /\ errorcnt' = g.errorcnt
            /\ stdout' = ErrorMsgs(stdout, "Nonterminal has no rules.",
                                   g.errorcnt - errorcnt)
            /\ IF g.isnew
                 THEN /\ cfg' = MarkIncomplete(g.cfg, g.tbl[g.stp + 1].cfp)
                      /\ x3a' = g.tbl
                      /\ stack' = Append([stack EXCEPT ![Len(stack)] = here],
                                         [stp |-> g.stp, cur |-> 1, sp |-> NoSym])
                      /\ UNCHANGED <<pc, aborted, exitcode, stderr>>
                 ELSE /\ cfg' = g.cfg
                      /\ x3a' = AddShift(g.tbl, Top.stp, sp, g.stp)
                      /\ stack' = [stack EXCEPT ![Len(stack)] = here]
                      /\ aborted' = ~g.ok
                      /\ pc' = IF g.ok THEN pc ELSE "exit"
                      /\ exitcode' = IF g.ok THEN exitcode ELSE ExitStatus(1)
                      /\ stderr' = IF g.ok THEN stderr ELSE myassert(stderr)
  /\ UNCHANGED <<rule, prec, assoc, start, lambda, firstset, nconflict, call,
                 opt, opened, disk, ps>>
  /\ UNCHANGED <<x2a, lem>>

(* The innermost call of buildshifts returns: getstate returns to the caller,
   which adds the shift action, or to FindStates. *)
BuildShiftsReturn ==
  /\ pc = "buildshifts"
  /\ stack # <<>>
  /\ NextShift(rule, cfg, x3a[Top.stp + 1].cfp, Top.cur) = 0
  /\ stack' = SubSeq(stack, 1, Len(stack) - 1)
  /\ IF Len(stack) > 1
       THEN /\ x3a' = AddShift(x3a, stack[Len(stack) - 1].stp,
                               stack[Len(stack) - 1].sp, Top.stp)
            /\ pc' = pc
       ELSE /\ x3a' = x3a
            /\ pc' = "FindLinks"
  /\ UNCHANGED <<rule, prec, assoc, start, lambda, firstset, cfg, errorcnt,
                 nconflict, aborted, call,
                 opt, exitcode, stdout, stderr, opened, disk, ps>>
  /\ UNCHANGED <<x2a, lem>>

DoFindLinks ==
  /\ pc = "FindLinks"
  /\ cfg' = FindLinks(cfg, x3a)
  /\ pc' = "FindFollowSets"
  /\ UNCHANGED <<rule, prec, assoc, start, lambda, firstset, x3a, stack,
                 errorcnt, nconflict, aborted, call,
                 opt, exitcode, stdout, stderr, opened, disk, ps>>
  /\ UNCHANGED <<x2a, lem>>

DoFindFollowSets ==
  /\ pc = "FindFollowSets"
  /\ cfg' = FindFollowSets(cfg, x3a)
  /\ pc' = "FindActions"
  /\ UNCHANGED <<rule, prec, assoc, start, lambda, firstset, x3a, stack,
                 errorcnt, nconflict, aborted, call,
                 opt, exitcode, stdout, stderr, opened, disk, ps>>
  /\ UNCHANGED <<x2a, lem>>

(* FindActions, in its four parts. *)
AddReduceActions ==
  /\ pc = "FindActions"
  /\ x3a' = AddReduces(rule, cfg, x3a)
  /\ pc' = "AddAccept"
  /\ UNCHANGED <<rule, prec, assoc, start, lambda, firstset, cfg, stack,
                 errorcnt, nconflict, aborted, call,
                 opt, exitcode, stdout, stderr, opened, disk, ps>>
  /\ UNCHANGED <<x2a, lem>>

AddAcceptAction ==
  /\ pc = "AddAccept"
  /\ x3a' = [x3a EXCEPT ![1].ap = Action_add(@, "ACCEPT", StartSymbol(rule, start), NoSym)]
  /\ pc' = "Resolve"
  /\ UNCHANGED <<rule, prec, assoc, start, lambda, firstset, cfg, stack,
                 errorcnt, nconflict, aborted, call,
                 opt, exitcode, stdout, stderr, opened, disk, ps>>
  /\ UNCHANGED <<x2a, lem>>

ResolveConflicts ==
  /\ pc = "Resolve"
  /\ \E r \in {ResolveAll(x3a, rule, prec, assoc)} :
       IF r.ok
         THEN /\ x3a' = r.tbl
              /\ nconflict' = nconflict + r.n
              /\ pc' = "CanReduce"
              /\ UNCHANGED <<aborted, exitcode, stderr>>
         ELSE /\ aborted' = TRUE
              /\ pc' = "exit"
              /\ exitcode' = ExitStatus(1)
              /\ stderr' = myassert(stderr)
              /\ UNCHANGED <<x3a, nconflict>>
  /\ UNCHANGED <<rule, prec, assoc, start, lambda, firstset, cfg, stack,
                 errorcnt, call, stdout,
                 opt, opened, disk, ps>>
  /\ UNCHANGED <<x2a, lem>>

ReportUnreduced ==
  /\ pc = "CanReduce"
  /\ rule' = [k \in 1 .. Len(rule) |->
                [rule[k] EXCEPT !.canReduce = CanReduce(x3a, k - 1)]]
  /\ errorcnt' = errorcnt
                 + Cardinality({k \in 1 .. Len(rule) : ~CanReduce(x3a, k - 1)})
  /\ stdout' = CanNotReduce(stdout, x3a, rule, 0)
  /\ UNCHANGED <<exitcode, stderr>>
  /\ pc' = "CompressTables"
  /\ UNCHANGED <<prec, assoc, start, lambda, firstset, cfg, x3a, stack,
                 nconflict, aborted, call,
                 opt, opened, disk, ps>>
  /\ UNCHANGED <<x2a, lem>>

(* if( compress==0 ) CompressTables(&lem); *)
DoCompressTables ==
  /\ pc = "CompressTables"
  /\ IF opt.compress
       THEN /\ pc' = "ReportOutput"
            /\ UNCHANGED <<x3a, aborted, exitcode, stderr>>
       ELSE \E r \in {CompressTables(x3a)} :
              IF r.ok
                THEN /\ x3a' = r.tbl
                     /\ pc' = "ReportOutput"
                     /\ UNCHANGED <<aborted, exitcode, stderr>>
                ELSE /\ aborted' = TRUE
                     /\ pc' = "exit"
                     /\ exitcode' = ExitStatus(1)
                     /\ stderr' = myassert(stderr)
                     /\ UNCHANGED x3a
  /\ UNCHANGED <<rule, prec, assoc, start, lambda, firstset, cfg, stack,
                 errorcnt, nconflict, call, stdout, opt, opened, disk, ps>>
  /\ UNCHANGED <<x2a, lem>>

(* file_open that says nothing and counts nothing when the file does not
   open. *)
file_open_silent(suffix, mode, d, err, cnt) ==
  [fp |-> IF mode = "w" THEN suffix \in d.writable ELSE suffix = ".h" /\ d.hexists,
   stderr |-> err, errorcnt |-> cnt]

(* file_open: fp is whether it returns a stream. *)
file_open(suffix, mode, d, err, cnt) ==
  IF mode = "w"
    THEN IF suffix \in d.writable
           THEN [fp |-> TRUE, stderr |-> err, errorcnt |-> cnt]
           ELSE [fp |-> FALSE, errorcnt |-> cnt + 1,
                 stderr |-> Append(err, Say("file_open", "Can't open file.", NoSym))]
    ELSE [fp |-> suffix = ".h" /\ d.hexists, stderr |-> err, errorcnt |-> cnt]

tplt_open(d, err, cnt) ==
  IF d.template = "ok" THEN [fp |-> TRUE, stderr |-> err, errorcnt |-> cnt]
  ELSE [fp |-> FALSE, errorcnt |-> cnt + 1,
        stderr |-> Append(err, Say("tplt_open",
                     IF d.template = "missing"
                       THEN "Can't find the parser driver template file."
                       ELSE "Can't open the template file.", NoSym))]

(* if( !quiet ) ReportOutput(&lem); *)
DoReportOutput ==
  /\ pc = "ReportOutput"
  /\ IF opt.quiet
       THEN UNCHANGED <<stderr, errorcnt, opened>>
       ELSE \E f \in {file_open(".out", "w", disk, stderr, errorcnt)} :
              /\ stderr' = f.stderr
              /\ errorcnt' = f.errorcnt
              /\ opened' = IF f.fp THEN Append(opened, ".out") ELSE opened
  /\ pc' = "ReportTable"
  /\ UNCHANGED <<rule, prec, assoc, start, lambda, firstset, cfg, x3a, stack,
                 nconflict, aborted, call, opt, exitcode, stdout, disk, ps>>
  /\ UNCHANGED <<x2a, lem>>

(* The integer of an action in the action table; negative if the action is
   not put into the table. *)
compute_action(nstate, nrule, ap) ==
  CASE ap.type = "SHIFT" -> ap.x
    [] ap.type = "REDUCE" -> ap.x + nstate
    [] ap.type = "ERROR" -> nstate + nrule
    [] ap.type = "ACCEPT" -> nstate + nrule + 1
    [] OTHER -> -1

(* a & b of two ints that are not negative. *)
RECURSIVE BitAnd(_, _)
BitAnd(a, b) ==
  IF a = 0 \/ b = 0 THEN 0
  ELSE (a % 2) * (b % 2) + 2 * BitAnd(a \div 2, b \div 2)

(* The actions of a state that go into its hash table. *)
Hashed(ap, nstate, nrule) ==
  {a \in 1 .. Len(ap) :
     ap[a].sp # nsymbol /\ compute_action(nstate, nrule, ap[a]) >= 0}

(* while( tablesize<stp->naction ) tablesize += tablesize; *)
RECURSIVE TableSize(_, _)
TableSize(tablesize, naction) ==
  IF tablesize < naction THEN TableSize(tablesize + tablesize, naction)
  ELSE tablesize

(* The hash table of a state before the actions are hashed: table[j] is an
   action of the list, by its place in it, or 0; collide[j] is -1;
   next[a] is ap->collide of the action at place a, 0 for a null pointer. *)
EmptyTable(ap, tablesize, nstate, nrule) ==
  [table |-> [j \in 0 .. (tablesize - 1) |-> 0],
   collide |-> [j \in 0 .. (tablesize - 1) |-> -1],
   next |-> [a \in 1 .. Len(ap) |-> 0],
   tabdfltact |-> nstate + nrule]

(* The loop that hashes the actions, with ap->collide left null. *)
RECURSIVE HashActions_nochain(_, _, _, _, _, _)
HashActions_nochain(ap, a, T, tablesize, nstate, nrule) ==
  IF a > Len(ap) THEN T
  ELSE LET action == compute_action(nstate, nrule, ap[a])
           h == BitAnd(ap[a].sp, tablesize - 1)
       IN HashActions_nochain(ap, a + 1,
            IF ap[a].sp = nsymbol THEN [T EXCEPT !.tabdfltact = action]
            ELSE IF action >= 0
              THEN [T EXCEPT !.table[h] = a]
              ELSE T,
            tablesize, nstate, nrule)

(* The loop that hashes the actions from place a of the list on. *)
RECURSIVE HashActions(_, _, _, _, _, _)
HashActions(ap, a, T, tablesize, nstate, nrule) ==
  IF a > Len(ap) THEN T
  ELSE LET action == compute_action(nstate, nrule, ap[a])
           h == BitAnd(ap[a].sp, tablesize - 1)
       IN HashActions(ap, a + 1,
            IF ap[a].sp = nsymbol THEN [T EXCEPT !.tabdfltact = action]
            ELSE IF action >= 0
              THEN [T EXCEPT !.next[a] = T.table[h], !.table[h] = a]
              ELSE T,
            tablesize, nstate, nrule)

(* while( table[k] ) k++; *)
RECURSIVE FreeSlot(_, _, _)
FreeSlot(table, k, tablesize) ==
  IF k < tablesize /\ table[k] # 0 THEN FreeSlot(table, k + 1, tablesize) ELSE k

(* The loop that resolves the collisions, from j and k on. *)
RECURSIVE ResolveCollisions(_, _, _, _)
ResolveCollisions(T, j, k, tablesize) ==
  IF j >= tablesize THEN T
  ELSE IF T.table[j] # 0 /\ T.next[T.table[j]] # 0
    THEN LET Move(kk) ==
               ResolveCollisions(
                 [T EXCEPT !.table[kk] = T.next[T.table[j]],
                           !.collide[j] = kk,
                           !.next[T.table[j]] = 0],
                 (IF kk < j THEN kk - 1 ELSE j) + 1, kk, tablesize)
         IN Move(FreeSlot(T.table, k, tablesize))
    ELSE ResolveCollisions(T, j + 1, k, tablesize)

(* The lines of the hash table of a state as they are printed: a slot that is
   not used has YYNOCODE for lookahead; next is the index of the entry the
   pointer goes to, -1 for a null pointer. *)
PrintTable(ap, T, tablesize, tablecnt, nstate, nrule) ==
  [n \in 1 .. tablesize |->
     IF T.table[n - 1] = 0
       THEN [lookahead |-> nsymbol + 1, action |-> 0, next |-> -1]
       ELSE [lookahead |-> ap[T.table[n - 1]].sp,
             action |-> compute_action(nstate, nrule, ap[T.table[n - 1]]),
             next |-> IF T.collide[n - 1] >= 0
                        THEN T.collide[n - 1] + tablecnt ELSE -1]]

(* The two loops of ReportTable over the states, from state i on: the action
   table and the state table. *)
RECURSIVE ReportTables(_, _, _, _, _)
ReportTables(tbl, i, tablecnt, out, nrule) ==
  IF i > Len(tbl) THEN out
  ELSE LET ap == tbl[i].ap
           tablesize == TableSize(1, Cardinality(Hashed(ap, Len(tbl), nrule)))
           Rows(T) ==
             [yyActionTable |-> out.yyActionTable
                                  \o PrintTable(ap, T, tablesize, tablecnt, Len(tbl), nrule),
              yyStateTable |-> Append(out.yyStateTable,
                                 [hashtbl |-> tablecnt, mask |-> tablesize - 1,
                                  actionDefault |-> T.tabdfltact])]
           Filled(T) == Rows(ResolveCollisions(T, 0, 0, tablesize))
       IN ReportTables(tbl, i + 1, tablecnt + tablesize,
            Filled(HashActions(ap, 1, EmptyTable(ap, tablesize, Len(tbl), nrule),
                               tablesize, Len(tbl), nrule)),
            nrule)

(* ReportTable(&lem, mhflag), for a grammar without aliases and without
   %stack_size: the files it opens, and the action table and the state table
   it writes into the .c file. *)
DoReportTable ==
  /\ pc = "ReportTable"
  /\ \E in \in {tplt_open(disk, stderr, errorcnt)} :
       IF ~in.fp
         THEN /\ stderr' = in.stderr
              /\ errorcnt' = in.errorcnt
              /\ UNCHANGED <<opened, disk>>
         ELSE \E f \in {file_open(".c", "w", disk, in.stderr, in.errorcnt)} :
                /\ stderr' = f.stderr
                /\ errorcnt' = f.errorcnt
                /\ opened' = IF f.fp THEN Append(opened, ".c") ELSE opened
                /\ disk' = IF f.fp
                             THEN [disk EXCEPT
                                     !.c = ReportTables(x3a, 1, 0, NoTables, Len(rule))]
                             ELSE disk
  /\ pc' = "ReportHeader"
  /\ UNCHANGED <<rule, prec, assoc, start, lambda, firstset, cfg, x3a, stack,
                 nconflict, aborted, call, opt, exitcode, stdout, ps>>
  /\ UNCHANGED <<x2a, lem>>

(* The line sprintf makes for the terminal with index i: the prefix, the name
   of the terminal and the index. *)
HeaderLine(prefix, name, i) == [prefix |-> prefix, name |-> name, index |-> i]

(* The loop of ReportHeader over the lines of the file it has found: the i
   it ends with. *)
RECURSIVE HeaderScan(_, _, _)
HeaderScan(lines, prefix, i) ==
  IF i < nterminal /\ i <= Len(lines)
    THEN IF lines[i] # HeaderLine(prefix, i, i) THEN i
         ELSE HeaderScan(lines, prefix, i + 1)
    ELSE i

(* if( !mhflag ) ReportHeader(&lem); *)
DoReportHeader ==
  /\ pc = "ReportHeader"
  /\ IF opt.mhflag
          \/ (file_open(".h", "r", disk, stderr, errorcnt).fp
                /\ HeaderScan(disk.h, ps.tokenprefix, 1) = nterminal)
       THEN UNCHANGED <<stderr, errorcnt, opened, disk>>
       ELSE \E f \in {file_open(".h", "w", disk, stderr, errorcnt)} :
              /\ stderr' = f.stderr
              /\ errorcnt' = f.errorcnt
              /\ opened' = IF f.fp THEN Append(opened, ".h") ELSE opened
              /\ disk' = IF f.fp
                           THEN [disk EXCEPT
                                   !.hexists = TRUE,
                                   !.h = [i \in 1 .. (nterminal - 1) |->
                                            HeaderLine(ps.tokenprefix, i, i)]]
                           ELSE disk
  /\ pc' = "Exit"
  /\ UNCHANGED <<rule, prec, assoc, start, lambda, firstset, cfg, x3a, stack,
                 nconflict, aborted, call, opt, exitcode, stdout, ps>>
  /\ UNCHANGED <<x2a, lem>>

(* The end of main: the statistics, the count of the conflicts, exit. *)
DoExit ==
  /\ pc = "Exit"
  /\ stdout' = IF opt.statistics
                 THEN stdout \o <<printf("Parser statistics:", NoSym)>>
                 ELSE stdout
  /\ stderr' = IF nconflict # 0
                 THEN Append(stderr, Say("fprintf", "%d parsing conflicts.", nconflict))
                 ELSE stderr
  /\ exitcode' = ExitStatus(errorcnt + nconflict)
  /\ pc' = "exit"
  /\ UNCHANGED <<rule, prec, assoc, start, lambda, firstset, cfg, x3a, stack,
                 errorcnt, nconflict, aborted, call, opt, opened, disk, ps>>
  /\ UNCHANGED <<x2a, lem>>

Next ==
  \/ DoFindRulePrecedences
  \/ DoFindFirstSets
  \/ DoFindStates
  \/ BuildShiftsIter
  \/ BuildShiftsReturn
  \/ DoFindLinks
  \/ DoFindFollowSets
  \/ AddReduceActions
  \/ AddAcceptAction
  \/ ResolveConflicts
  \/ ReportUnreduced
  \/ DoCompressTables
  \/ DoReportOutput
  \/ DoReportTable
  \/ DoReportHeader
  \/ DoExit

Spec == Init /\ [][Next]_vars

----------------------------------------------------------------------------
(* main() from the call of Parse on: the grammar files, the command lines and
   the files the runs start with. *)

(* %type declarations that make every symbol of the model a symbol of the
   grammar, as the indices of the model suppose. *)
Preamble ==
  <<Punct("%"), Kw("type"), Id(TermA), Punct("{"),
    Punct("%"), Kw("type"), Id(TermB), Punct("{"),
    Punct("%"), Kw("type"), Id(SymS), Punct("{"),
    Punct("%"), Kw("type"), Id(SymX), Punct("{")>>

(* A grammar file without a token. *)
CommentOnly == <<Punct("//"), Kw("left"), Punct("\n")>>

AssocWord(a) == CASE a = "RIGHT" -> "right" [] a = "NONE" -> "nonassoc" [] OTHER -> "left"

(* The n-th precedence declaration of a grammar file that gives the terminals
   the precedences and associativities c. *)
PrecDeclLine(c, n) ==
  <<Punct("%"),
    Kw(IF c.prec[TermA] = n THEN AssocWord(c.assoc[TermA])
       ELSE IF c.prec[TermB] = n THEN AssocWord(c.assoc[TermB])
       ELSE "left")>>
    \o (IF c.prec[TermA] = n THEN <<Id(TermA)>> ELSE <<>>)
    \o (IF c.prec[TermB] = n THEN <<Id(TermB)>> ELSE <<>>)
    \o <<Punct("."), Punct("\n")>>

RECURSIVE PrecDecl(_, _)
PrecDecl(c, n) ==
  IF \A t \in Terminals : c.prec[t] < n THEN <<>>
  ELSE PrecDeclLine(c, n) \o PrecDecl(c, n + 1)

StartDecl(st) ==
  IF st = NoName THEN <<>>
  ELSE <<Punct("%"), Kw("start_symbol"),
         IF st = BadName THEN Tok("lower", NoSym, "nosuch") ELSE Id(st)>>

(* The rules of a grammar file, one on a line, with their precedence marks. *)
RuleText(rp) ==
  <<Id(rp.lhs), Punct("::=")>> \o [i \in 1 .. Len(rp.rhs) |-> Id(rp.rhs[i])]
    \o <<Punct(".")>>
    \o (IF rp.precsym # NoSym THEN <<Punct("["), Id(rp.precsym), Punct("]")>> ELSE <<>>)
    \o <<Punct("\n")>>

RECURSIVE RulesText(_, _)
RulesText(g, k) ==
  IF k > Len(g) THEN <<>> ELSE RuleText(g[k]) \o RulesText(g, k + 1)

GrammarText(g, c, st) ==
  <<Punct("//"), Kw("left"), Punct("\n")>> \o Preamble \o PrecDecl(c, 1)
    \o StartDecl(st) \o RulesText(g, 1)

NoPrecConfig == [prec |-> NoPrec, assoc |-> NoAssoc]

(* Texts of up to MaxTokens tokens, most of them with an error. *)
MaxTokens == 4
ShortTexts ==
  {t \in UNION {[1 .. k -> {Id(SymS), Id(TermA), Punct("::="), Punct("."),
                            Punct("%"), Kw("left"), Punct("[")}] :
                  k \in 0 .. MaxTokens} :
     \A i \in 1 .. Len(t) : t[i] = Kw("left") => i > 1 /\ t[i - 1] = Punct("%")}

(* The .h files a run may find: up to nterminal lines, each the line of some
   terminal, with its index or another one, with the prefix or another one. *)
HeaderLines ==
  {HeaderLine("", 1, 1), HeaderLine("", 2, 2), HeaderLine("", 1, 2),
   HeaderLine("T_", 1, 1)}
HeaderFiles == UNION {[1 .. k -> HeaderLines] : k \in 0 .. nterminal}

(* Every grammar of the corpus and the grammar without rules, under every
   declaration of precedences, with and without -g. *)
InitMainGrammar ==
  /\ \E g \in CorpusGrammars \cup {<<>>} : \E c \in PrecConfigs :
       disk = [NoDisk EXCEPT !.input = GrammarText(g, c, NoName)]
  /\ opt \in {[NoOptions EXCEPT !.rpflag = r, !.statistics = r] : r \in BOOLEAN}

(* Every command line. *)
InitMainOptions ==
  /\ \E g \in {GExpr, GMixedReduce, GUnproductive} : \E st \in {NoName, BadName, SymX} :
       disk = [NoDisk EXCEPT !.input = GrammarText(g, NoPrecConfig, st)]
  /\ opt \in Options

(* Files that do not open. *)
InitMainFiles ==
  /\ \E r \in {"ok", "noopen", "noread"} :
     \E t \in {"ok", "missing", "noopen"} :
     \E w \in SUBSET Suffixes :
     \E h \in {<<>>, <<HeaderLine("", 1, 1), HeaderLine("", 2, 2)>>} :
       disk = [input |-> GrammarText(GExpr, NoPrecConfig, NoName),
               readable |-> r, template |-> t, writable |-> w,
               h |-> h, hexists |-> h # <<>>, c |-> NoTables]
  /\ opt \in {[NoOptions EXCEPT !.quiet = q, !.mhflag = m] : q, m \in BOOLEAN}

(* The .h files of earlier runs. *)
InitMainHeader ==
  /\ \E h \in HeaderFiles : \E x \in BOOLEAN : \E w \in {Suffixes, Suffixes \ {".h"}} :
       disk = [NoDisk EXCEPT !.input = GrammarText(GExpr, NoPrecConfig, NoName),
                             !.h = h, !.hexists = x \/ h # <<>>, !.writable = w]
  /\ opt = NoOptions

(* Grammar files with errors. *)
InitMainErrors ==
  /\ \/ \E t \in ShortTexts : disk = [NoDisk EXCEPT !.input = Preamble \o t]
     \/ disk = [NoDisk EXCEPT !.input = CommentOnly]
  /\ opt \in {[NoOptions EXCEPT !.rpflag = r] : r \in BOOLEAN}

InitMain ==
  /\ pc = "Parse"
  /\ rule = <<>>
  /\ prec = NoPrec
  /\ assoc = NoAssoc
  /\ start = NoName
  /\ ps = NewParse(<<>>)
  /\ InitAnalysis
  /\ \/ InitMainGrammar
     \/ InitMainOptions
     \/ InitMainFiles
     \/ InitMainHeader
     \/ InitMainErrors
  /\ NoSymbols

(* Parse(&lem) *)
DoParse ==
  /\ pc = "Parse"
  /\ IF disk.readable # "ok"
       THEN /\ stdout' = ErrorMsg(stdout,
                            IF disk.readable = "noopen"
                              THEN "Can't open this file for reading."
                              ELSE "Can't read in all bytes of this file.", NoSym)
            /\ errorcnt' = errorcnt + 1
            /\ UNCHANGED <<rule, prec, assoc, start, ps>>
       ELSE \E P \in {ParseLoop([state |-> "INITIALIZE", lhs |-> NoSym,
                                  rhs |-> <<>>, prevrule |-> NoSym,
                                  declkeyword |-> "", declargslot |-> NoSlot,
                                  declassoc |-> "UNK", preccounter |-> 0,
                                  errorcnt |-> 0, firstrule |-> <<>>,
                                  nrule |-> 0, index |-> <<>>,
                                  symrule |-> [sp \in 0 .. nsymbol |-> <<>>],
                                  coded |-> {},
                                  filled |-> {}, tokenprefix |-> "",
                                  symbols |-> {0, errsym}, text |-> disk.input,
                                  prec |-> prec, assoc |-> assoc,
                                  start |-> start, out |-> stdout])} :
              /\ rule' \in ParseReturn(P)
              /\ errorcnt' = P.errorcnt
              /\ prec' = P.prec
              /\ assoc' = P.assoc
              /\ start' = P.start
              /\ stdout' = P.out
              /\ ps' = [f \in DOMAIN ps |->
                         IF f = "text" THEN <<>>
                         ELSE IF f = "firstrule" THEN rule' ELSE P[f]]
  /\ pc' = "Parsed"
  /\ UNCHANGED <<lambda, firstset, cfg, x3a, stack, nconflict, aborted, call,
                 opt, exitcode, stderr, opened, disk>>
  /\ UNCHANGED <<x2a, lem>>

(* main() without its first exit: the errors of Parse do not end the run. *)
MainAfterParse_goon ==
  /\ pc = "Parsed"
  /\ IF rule = <<>>
       THEN /\ stderr' = Append(stderr, Say("fprintf", "Empty grammar.", NoSym))
            /\ exitcode' = ExitStatus(1)
            /\ pc' = "exit"
       ELSE /\ pc' = IF rule = WildRule THEN "crash"
                     ELSE IF opt.rpflag THEN "Reprint" ELSE "FindRulePrecedences"
            /\ UNCHANGED <<exitcode, stderr>>
  /\ UNCHANGED <<rule, prec, assoc, start, lambda, firstset, cfg, x3a, stack,
                 errorcnt, nconflict, aborted, call, opt, stdout, opened, disk, ps>>
  /\ UNCHANGED <<x2a, lem>>

(* main() between Parse and the analysis: the exits, and the indices of the
   symbols, which the model has given them from the start.  With lem.rule a
   pointer to no rule neither exit is taken, and the run ends where the
   pointer is followed (crash). *)
MainAfterParse ==
  /\ pc = "Parsed"
  /\ IF errorcnt # 0
       THEN /\ exitcode' = ExitStatus(errorcnt)
            /\ pc' = "exit"
            /\ UNCHANGED stderr
       ELSE IF rule = <<>>
         THEN /\ stderr' = Append(stderr, Say("fprintf", "Empty grammar.", NoSym))
              /\ exitcode' = ExitStatus(1)
              /\ pc' = "exit"
         ELSE /\ pc' = IF rule = WildRule THEN "crash"
                       ELSE IF opt.rpflag THEN "Reprint" ELSE "FindRulePrecedences"
              /\ UNCHANGED <<exitcode, stderr>>
  /\ UNCHANGED <<rule, prec, assoc, start, lambda, firstset, cfg, x3a, stack,
                 errorcnt, nconflict, aborted, call, opt, stdout, opened, disk, ps>>
  /\ UNCHANGED <<x2a, lem>>

(* if( rpflag ) Reprint(&lem); *)
DoReprint ==
  /\ pc = "Reprint"
  /\ stdout' = stdout \o Reprint(rule)
  /\ pc' = "Exit"
  /\ UNCHANGED <<rule, prec, assoc, start, lambda, firstset, cfg, x3a, stack,
                 errorcnt, nconflict, aborted, call, opt, exitcode, stderr,
                 opened, disk, ps>>
  /\ UNCHANGED <<x2a, lem>>

NextMain ==
  \/ DoParse
  \/ MainAfterParse
  \/ DoReprint
  \/ Next

SpecMain == InitMain /\ [][NextMain]_vars

----------------------------------------------------------------------------
(* The symbol table and the indices main gives the symbols.  A name is the
   sequence of the ASCII codes of its characters. *)

isupper(c) == c \in 65 .. 90
islower(c) == c \in 97 .. 122
isalpha(c) == isupper(c) \/ islower(c)

DollarName == <<36>>                                          \* "$"
ErrorName == <<101, 114, 114, 111, 114>>                      \* "error"
DefaultName == <<123, 100, 101, 102, 97, 117, 108, 116, 125>> \* "{default}"

(* strcmp that compares the lengths first. *)
strcmp_bylen(a, b) ==
  IF Len(a) # Len(b) THEN (IF Len(a) < Len(b) THEN -1 ELSE 1)
  ELSE IF a = b THEN 0
  ELSE LET k == CHOOSE i \in 1 .. Len(a) :
                  a[i] # b[i] /\ \A j \in 1 .. (i - 1) : a[j] = b[j]
       IN IF a[k] < b[k] THEN -1 ELSE 1

(* The sign of strcmp(a, b). *)
RECURSIVE strcmp(_, _)
strcmp(a, b) ==
  IF a = <<>> /\ b = <<>> THEN 0
  ELSE IF a = <<>> THEN -1
  ELSE IF b = <<>> THEN 1
  ELSE IF Head(a) # Head(b) THEN (IF Head(a) < Head(b) THEN -1 ELSE 1)
  ELSE strcmp(Tail(a), Tail(b))

Symbolcmpp(a, b) == strcmp(a.name, b.name)

Symbol_find(tbl, x) == {i \in 1 .. Len(tbl) : tbl[i].name = x}

(* Symbol_new on the table of the names; the index of a new symbol is not
   set. *)
Symbol_new_x2a(tbl, x) ==
  IF Symbol_find(tbl, x) # {} THEN tbl
  ELSE Append(tbl, [name |-> x,
                    type |-> IF isupper(x[1]) THEN "TERMINAL" ELSE "NONTERMINAL",
                    index |-> NoSym])

(* qsort with Symbolcmpp, as a sort by insertion. *)
RECURSIVE SymbolInsert(_, _)
SymbolInsert(arr, sp) ==
  IF arr = <<>> THEN <<sp>>
  ELSE IF Symbolcmpp(sp, Head(arr)) < 0 THEN <<sp>> \o arr
  ELSE <<Head(arr)>> \o SymbolInsert(Tail(arr), sp)

RECURSIVE qsort(_)
qsort(arr) ==
  IF arr = <<>> THEN <<>> ELSE SymbolInsert(qsort(Tail(arr)), Head(arr))

(* for(i=1; safe_isupper(lem.symbols[i]->name[0]); i++);  The loop has no
   other bound: past the end of the array it stops in the model with the
   size of the array. *)
RECURSIVE TerminalLoop(_, _)
TerminalLoop(arr, i) ==
  IF i >= Len(arr) THEN i
  ELSE IF isupper(arr[i + 1].name[1]) THEN TerminalLoop(arr, i + 1)
  ELSE i

(* The names the parser calls Symbol_new with: a letter, then letters, digits
   and underscores. *)
MaxNameLen == 2
MaxSymbols == 3
Chars == {48, 65, 90, 95, 97, 122}
Names ==
  {x \in UNION {[1 .. k -> Chars] : k \in 1 .. MaxNameLen} : isalpha(x[1])}

InitSym ==
  /\ pc = "Symbols"
  /\ x2a = Symbol_new_x2a(Symbol_new_x2a(<<>>, DollarName), ErrorName)
  /\ lem = NoLem
  /\ rule = <<>>
  /\ prec = NoPrec
  /\ assoc = NoAssoc
  /\ start = NoName
  /\ opt = NoOptions
  /\ disk = NoDisk
  /\ ps = NoParse
  /\ InitAnalysis

(* A call of Symbol_new by the parser. *)
CallSymbol_new ==
  /\ pc = "Symbols"
  /\ \E x \in Names :
       /\ Symbol_find(x2a, x) # {} \/ Len(x2a) < 2 + MaxSymbols
       /\ x2a' = Symbol_new_x2a(x2a, x)
  /\ UNCHANGED <<pc, rule, prec, assoc, start, lambda, firstset, cfg, x3a, stack,
                 errorcnt, nconflict, aborted, call, opt, exitcode, stdout,
                 stderr, opened, disk, ps, lem>>

(* Count and index the symbols of the grammar (main). *)
IndexSymbols ==
  /\ pc = "Symbols"
  /\ \E arr \in {qsort(Symbol_new_x2a(x2a, DefaultName))} :
       /\ lem' = [nsymbol |-> Len(x2a),
                  symbols |-> [i \in 1 .. Len(arr) |-> [arr[i] EXCEPT !.index = i - 1]],
                  nterminal |-> TerminalLoop(arr, 1)]
       /\ x2a' = [i \in 1 .. Len(arr) |->
                    [Symbol_new_x2a(x2a, DefaultName)[i] EXCEPT
                       !.index = (CHOOSE k \in 1 .. Len(arr) :
                                    arr[k].name = Symbol_new_x2a(x2a, DefaultName)[i].name) - 1]]
  /\ pc' = "Indexed"
  /\ UNCHANGED <<rule, prec, assoc, start, lambda, firstset, cfg, x3a, stack,
                 errorcnt, nconflict, aborted, call, opt, exitcode, stdout,
                 stderr, opened, disk, ps>>

NextSym ==
  \/ CallSymbol_new
  \/ IndexSymbols

SpecSym == InitSym /\ [][NextSym]_vars

----------------------------------------------------------------------------
(* The analysis with the loops of FindFirstSets and FindFollowSets taken one
   pass at a time. *)

FirstSetsStart ==
  /\ pc = "FindFirstSets"
  /\ lambda' = [i \in 0 .. nsymbol |-> FALSE]
  /\ firstset' = [i \in Nonterminals |-> {}]
  /\ pc' = "LambdaLoop"
  /\ UNCHANGED <<rule, prec, assoc, start, cfg, x3a, stack, errorcnt,
                 nconflict, aborted, call, opt, exitcode, stdout, stderr,
                 opened, disk, ps, x2a, lem>>

(* One turn of the first do-loop of FindFirstSets. *)
LambdaLoopPass ==
  /\ pc = "LambdaLoop"
  /\ \E r \in {LambdaPass(rule, 1, lambda, 0)} :
       /\ lambda' = r.lambda
       /\ pc' = IF r.progress # 0 THEN "LambdaLoop" ELSE "FirstLoop"
  /\ UNCHANGED <<rule, prec, assoc, start, firstset, cfg, x3a, stack, errorcnt,
                 nconflict, aborted, call, opt, exitcode, stdout, stderr,
                 opened, disk, ps, x2a, lem>>

(* One turn of the second do-loop of FindFirstSets. *)
FirstLoopPass ==
  /\ pc = "FirstLoop"
  /\ \E r \in {FirstPass(rule, 1, firstset, 0, lambda)} :
       /\ firstset' = r.firstset
       /\ pc' = IF r.progress # 0 THEN "FirstLoop" ELSE "FindStates"
  /\ UNCHANGED <<rule, prec, assoc, start, lambda, cfg, x3a, stack, errorcnt,
                 nconflict, aborted, call, opt, exitcode, stdout, stderr,
                 opened, disk, ps, x2a, lem>>

FollowSetsStart ==
  /\ pc = "FindFollowSets"
  /\ cfg' = MarkIncomplete(cfg, AllConfigs(x3a, 1))
  /\ pc' = "FollowLoop"
  /\ UNCHANGED <<rule, prec, assoc, start, lambda, firstset, x3a, stack,
                 errorcnt, nconflict, aborted, call, opt, exitcode, stdout,
                 stderr, opened, disk, ps, x2a, lem>>

(* One turn of the do-loop of FindFollowSets. *)
FollowLoopPass ==
  /\ pc = "FollowLoop"
  /\ \E r \in {FollowPass(cfg, AllConfigs(x3a, 1), 1, 0)} :
       /\ cfg' = r.cfg
       /\ pc' = IF r.progress # 0 THEN "FollowLoop" ELSE "FindActions"
  /\ UNCHANGED <<rule, prec, assoc, start, lambda, firstset, x3a, stack,
                 errorcnt, nconflict, aborted, call, opt, exitcode, stdout,
                 stderr, opened, disk, ps, x2a, lem>>

NextLive ==
  \/ DoFindRulePrecedences
  \/ FirstSetsStart
  \/ LambdaLoopPass
  \/ FirstLoopPass
  \/ DoFindStates
  \/ BuildShiftsIter
  \/ BuildShiftsReturn
  \/ DoFindLinks
  \/ FollowSetsStart
  \/ FollowLoopPass
  \/ AddReduceActions
  \/ AddAcceptAction
  \/ ResolveConflicts
  \/ ReportUnreduced
  \/ DoCompressTables
  \/ DoReportOutput
  \/ DoReportTable
  \/ DoReportHeader
  \/ DoExit

(* main has a statement to run. *)
Running == pc # "exit"

(* Weak fairness of the steps of main: main does not stop while it has a
   statement to run.  It is the formula that defines WF_vars(NextLive), with
   Running for ENABLED <<NextLive>>_vars: every action is a total function of
   the state under the guard on pc. *)
Fairness == []<>(~Running) \/ []<><<NextLive>>_vars

SpecLive == Init /\ [][NextLive]_vars /\ Fairness

----------------------------------------------------------------------------
(* resolve_conflict on its own: one call, with two actions on one lookahead as
   the loop of FindActions hands them over.  apx is the first action of a
   group of the sorted list (a shift or a reduce, which an earlier call may
   have marked resolved) and apy a later action of the group, which no call
   has touched yet.  A shift and a reduce meet on a terminal of a rule, two
   reduces on any terminal and by rules in the order of their indices. *)

RCRules ==
  {[k \in 1 .. MaxRules |-> RP(SymS, <<>>, p[k])] :
     p \in [1 .. MaxRules -> {NoSym, TermA, TermB}]}

RCShiftPairs ==
  {<<[sp |-> t, type |-> tx, x |-> i], [sp |-> t, type |-> "REDUCE", x |-> j]>> :
     t \in {TermA, TermB}, tx \in {"SHIFT", "SH_RESOLVED"},
     i \in 0 .. MaxRules - 1, j \in 0 .. MaxRules - 1}

RCReducePairs ==
  {<<[sp |-> t, type |-> tx, x |-> ij[1]], [sp |-> t, type |-> "REDUCE", x |-> ij[2]]>> :
     t \in {0, TermA, TermB}, tx \in {"REDUCE", "RD_RESOLVED"},
     ij \in {q \in (0 .. MaxRules - 1) \X (0 .. MaxRules - 1) : q[1] < q[2]}}

RCAcceptPairs ==
  {<<[sp |-> SymS, type |-> "SHIFT", x |-> i], [sp |-> SymS, type |-> "ACCEPT", x |-> NoSym]>> :
     i \in 0 .. MaxRules - 1}

InitRC ==
  /\ pc = "resolve_conflict"
  /\ rule \in RCRules
  /\ \E c \in PrecConfigs : prec = c.prec /\ assoc = c.assoc
  /\ start = NoName
  /\ lambda = [i \in 0 .. nsymbol |-> FALSE]
  /\ firstset = <<>>
  /\ cfg = <<>>
  /\ x3a = <<>>
  /\ stack = <<>>
  /\ errorcnt = 0
  /\ nconflict = 0
  /\ aborted = FALSE
  /\ InitRun
  /\ opt = NoOptions
  /\ disk = NoDisk
  /\ ps = NoParse
  /\ \E in \in RCShiftPairs \cup RCReducePairs \cup RCAcceptPairs :
       call = [done |-> FALSE, in |-> in]
  /\ NoSymbols

CallResolveConflict ==
  /\ pc = "resolve_conflict"
  /\ \E r \in {resolve_conflict(call.in[1], call.in[2], rule, prec, assoc)} :
       /\ call' = [done |-> TRUE, in |-> call.in, out |-> r]
       /\ nconflict' = nconflict + r.errcnt
       /\ aborted' = ~r.ok
       /\ exitcode' = IF r.ok THEN exitcode ELSE ExitStatus(1)
       /\ stderr' = IF r.ok THEN stderr ELSE myassert(stderr)
  /\ pc' = "resolved"
  /\ UNCHANGED stdout
  /\ UNCHANGED <<rule, prec, assoc, start, lambda, firstset, cfg, x3a, stack,
                 errorcnt,
                 opt, opened, disk, ps>>
  /\ UNCHANGED <<x2a, lem>>

NextRC == CallResolveConflict

SpecRC == InitRC /\ [][NextRC]_vars

----------------------------------------------------------------------------
(* The claims about resolve_conflict *)

RCPrecOfRule(ap) ==
  LET spy == Rp(rule, ap.x).precsym IN IF spy = NoSym THEN -1 ELSE prec[spy]

RCOutcome(tx, ty, n) ==
  /\ call.out.apx = [call.in[1] EXCEPT !.type = tx]
  /\ call.out.apy = [call.in[2] EXCEPT !.type = ty]
  /\ call.out.errcnt = n
  /\ nconflict = n

RCShiftReduceCase ==
  pc = "resolved" /\ call.in[1].type = "SHIFT" /\ call.in[2].type = "REDUCE"

RCReduceReduceCase ==
  pc = "resolved" /\ call.in[1].type = "REDUCE" /\ call.in[2].type = "REDUCE"

(* C1: a shift and a reduce on one lookahead, sP the precedence of the
   lookahead and rP that of the precedence symbol of the rule.  No precedence
   symbol, or sP or rP undefined: the reduce becomes CONFLICT and one conflict
   is counted.  sP > rP: the shift stays, the reduce becomes RD_RESOLVED.
   sP < rP: the reduce stays, the shift becomes SH_RESOLVED.  sP = rP:
   associativity right keeps the shift, left keeps the reduce, none marks the
   reduce CONFLICT and counts one conflict.  The resolved cases count nothing. *)
C1_ShiftReduce ==
  RCShiftReduceCase =>
    LET sP == prec[call.in[1].sp]
        rP == RCPrecOfRule(call.in[2])
        a == assoc[call.in[1].sp]
    IN IF sP < 0 \/ rP < 0 THEN RCOutcome("SHIFT", "CONFLICT", 1)
       ELSE IF sP > rP THEN RCOutcome("SHIFT", "RD_RESOLVED", 0)
       ELSE IF sP < rP THEN RCOutcome("SH_RESOLVED", "REDUCE", 0)
       ELSE /\ a \in {"LEFT", "RIGHT", "NONE"}
            /\ a = "RIGHT" => RCOutcome("SHIFT", "RD_RESOLVED", 0)
            /\ a = "LEFT" => RCOutcome("SH_RESOLVED", "REDUCE", 0)
            /\ a = "NONE" => RCOutcome("SHIFT", "CONFLICT", 1)

(* A shift lost to a reduce of higher precedence, the call having returned. *)
C1_Witness ==
  /\ RCShiftReduceCase
  /\ prec[call.in[1].sp] >= 0
  /\ prec[call.in[1].sp] < RCPrecOfRule(call.in[2])
  /\ call.out.apx.type = "SH_RESOLVED"

(* C2: two reduces on one lookahead.  A rule without precedence symbol, an
   undefined precedence, or equal precedences: the later action becomes
   CONFLICT and one conflict is counted.  Otherwise the action of the rule of
   higher precedence stays REDUCE, the other becomes RD_RESOLVED, and nothing
   is counted. *)
C2_ReduceReduce ==
  RCReduceReduceCase =>
    LET xP == RCPrecOfRule(call.in[1])
        yP == RCPrecOfRule(call.in[2])
    IN IF xP < 0 \/ yP < 0 \/ xP = yP THEN RCOutcome("REDUCE", "CONFLICT", 1)
       ELSE IF xP > yP THEN RCOutcome("REDUCE", "RD_RESOLVED", 0)
       ELSE RCOutcome("RD_RESOLVED", "REDUCE", 0)

(* Two reduces by rules of one defined precedence, the call having returned. *)
C2_Witness ==
  /\ RCReduceReduceCase
  /\ RCPrecOfRule(call.in[1]) >= 0
  /\ RCPrecOfRule(call.in[1]) = RCPrecOfRule(call.in[2])
  /\ call.out.apy.type = "CONFLICT"

----------------------------------------------------------------------------
(* FindFirstSets on its own, on every grammar of up to MaxRules rules of s and
   x over both terminals and both nonterminals. *)

FirstGrammars ==
  GrammarsOver(RulesOver({SymS, SymX}, {TermA, TermB, SymS, SymX}, MaxRhs), MaxRules)

InitFirst ==
  /\ pc = "FindFirstSets"
  /\ rule \in FirstGrammars
  /\ prec = NoPrec
  /\ assoc = NoAssoc
  /\ start = NoName
  /\ opt = NoOptions
  /\ disk = NoDisk
  /\ ps = NoParse
  /\ InitAnalysis
  /\ NoSymbols

NextFirst == DoFindFirstSets

SpecFirst == InitFirst /\ [][NextFirst]_vars

(* FindRulePrecedences on its own, on rules with and without a precedence
   mark, under every declaration of precedences. *)

PrecRules ==
  {RP(SymS, r, p) : r \in SeqsOver({TermA, TermB, SymX}, MaxRhs),
                    p \in {NoSym, TermA, TermB}}

InitPrec ==
  /\ pc = "FindRulePrecedences"
  /\ rule \in GrammarsOver(PrecRules, MaxRules - 1)
  /\ \E c \in PrecConfigs : prec = c.prec /\ assoc = c.assoc
  /\ start = NoName
  /\ opt = NoOptions
  /\ disk = NoDisk
  /\ ps = NoParse
  /\ InitAnalysis
  /\ NoSymbols

NextPrec == DoFindRulePrecedences

SpecPrec == InitPrec /\ [][NextPrec]_vars

----------------------------------------------------------------------------
(* The claims about the states, their configurations and their actions *)

States == 1 .. Len(x3a)
RuleIndices == 0 .. (Len(rule) - 1)
ConfigsOf(i) == {x3a[i].cfp[k] : k \in 1 .. Len(x3a[i].cfp)}
BasisOf(i) == {x3a[i].bp[k] : k \in 1 .. Len(x3a[i].bp)}
Nrhs(id) == Len(Rp(rule, cfg[id].rp).rhs)
AfterDot(id) == Rp(rule, cfg[id].rp).rhs[cfg[id].dot + 1]
ActionsOf(i, type) == {a \in 1 .. Len(x3a[i].ap) : x3a[i].ap[a].type = type}

(* C3: before the conflicts are resolved, a state holds a reduce action by
   rule r on terminal t if and only if it holds a configuration of r with the
   dot at the end whose follow set contains t, and it holds one such action
   for each such configuration and terminal. *)
C3_ReduceActions ==
  pc \in {"AddAccept", "Resolve"} =>
    \A i \in States : \A r \in RuleIndices : \A t \in 0 .. nsymbol :
      Cardinality({a \in ActionsOf(i, "REDUCE") :
                     x3a[i].ap[a].sp = t /\ x3a[i].ap[a].x = r})
      = Cardinality({id \in ConfigsOf(i) :
                       /\ cfg[id].rp = r
                       /\ cfg[id].dot = Nrhs(id)
                       /\ t \in 0 .. (nterminal - 1)
                       /\ t \in cfg[id].fws})

(* A state with reduce actions on both terminals and one on the end of input. *)
C3_Witness ==
  /\ pc = "Resolve"
  /\ \E i \in States :
       /\ \E a \in ActionsOf(i, "REDUCE") : x3a[i].ap[a].sp = TermB
       /\ \E a \in ActionsOf(i, "REDUCE") : x3a[i].ap[a].sp = TermA
  /\ \E i \in States : \E a \in ActionsOf(i, "REDUCE") : x3a[i].ap[a].sp = 0

AfterFollowSets == {"FindActions", "AddAccept", "Resolve", "CanReduce", "CompressTables"}

ShiftTargets(i, sp) ==
  {x3a[i].ap[a].x : a \in {b \in 1 .. Len(x3a[i].ap) :
                             /\ x3a[i].ap[b].type \in {"SHIFT", "SH_RESOLVED"}
                             /\ x3a[i].ap[b].sp = sp}}

RestNullable(id) ==
  \A j \in (cfg[id].dot + 2) .. Nrhs(id) :
    LET xsp == Rp(rule, cfg[id].rp).rhs[j]
    IN SymType(xsp) = "NONTERMINAL" /\ lambda[xsp]

(* C4: after FindFollowSets, follow(c) is a subset of follow(c') for every
   propagation edge c -> c': the forward links, the reverse of the backward
   links, and so the edge from a configuration to its successor in the state
   its symbol shifts to (also when that state was found, not built) and the
   edge from a configuration to the configurations its closure added when the
   rest of its rule is nullable. *)
C4_FollowFixedPoint ==
  pc \in AfterFollowSets =>
    \A i \in States : \A c \in ConfigsOf(i) :
      /\ \A k \in 1 .. Len(cfg[c].fplp) : cfg[c].fws \subseteq cfg[cfg[c].fplp[k]].fws
      /\ \A k \in 1 .. Len(cfg[c].bplp) : cfg[cfg[c].bplp[k]].fws \subseteq cfg[c].fws
      /\ cfg[c].dot < Nrhs(c) =>
           /\ \A q \in ShiftTargets(i, AfterDot(c)) : \A d \in BasisOf(q + 1) :
                (cfg[d].rp = cfg[c].rp /\ cfg[d].dot = cfg[c].dot + 1)
                  => cfg[c].fws \subseteq cfg[d].fws
           /\ RestNullable(c) =>
                \A d \in ConfigsOf(i) :
                  (cfg[d].dot = 0 /\ Rp(rule, cfg[d].rp).lhs = AfterDot(c))
                    => cfg[c].fws \subseteq cfg[d].fws

(* A state two shifts lead to, with a lookahead in a follow set of its basis
   that the basis of the start state does not have. *)
C4_Witness ==
  /\ pc = "FindActions"
  /\ \E q \in States :
       /\ \E i, j \in States :
            /\ i # j
            /\ \E sp \in 0 .. nsymbol :
                 x3a[q].index \in ShiftTargets(i, sp) \cap ShiftTargets(j, sp)
       /\ \E d \in BasisOf(q) : cfg[d].fws \cap Terminals # {}

(* C5: in every state, a configuration with a nonterminal B after its dot
   comes with the configuration B -> . gamma for every rule B -> gamma, and no
   two configurations of a state have the same rule and dot. *)
C5_Closure ==
  \A i \in States :
    /\ \A c \in ConfigsOf(i) :
         cfg[c].dot < Nrhs(c) =>
           \A r \in RuleIndices :
             Rp(rule, r).lhs = AfterDot(c) =>
               \E d \in ConfigsOf(i) : cfg[d].rp = r /\ cfg[d].dot = 0
    /\ \A k, m \in 1 .. Len(x3a[i].cfp) :
         (cfg[x3a[i].cfp[k]].rp = cfg[x3a[i].cfp[m]].rp
          /\ cfg[x3a[i].cfp[k]].dot = cfg[x3a[i].cfp[m]].dot) => k = m

(* A state other than the first whose closure added two rules of the
   nonterminal after a dot, all states being built. *)
C5_Witness ==
  /\ pc = "FindLinks"
  /\ \E i \in States :
       /\ i > 1
       /\ \E c \in BasisOf(i) :
            /\ cfg[c].dot < Nrhs(c)
            /\ Cardinality({d \in ConfigsOf(i) \ BasisOf(i) :
                              Rp(rule, cfg[d].rp).lhs = AfterDot(c)}) >= 2

BasisKey(i) == [k \in 1 .. Len(x3a[i].bp) |->
                  <<cfg[x3a[i].bp[k]].rp, cfg[x3a[i].bp[k]].dot>>]

(* C6: two distinct states have different sorted basis sequences of (rule
   index, dot). *)
C6_Canonical ==
  \A i, j \in States : BasisKey(i) = BasisKey(j) => i = j

(* All states being built, a state that getstate found again: two shifts on
   one symbol lead to it. *)
C6_Witness ==
  /\ pc = "FindLinks"
  /\ \E q, i, j \in States :
       /\ i # j
       /\ Len(x3a[q].bp) >= 2
       /\ \E sp \in 0 .. nsymbol :
            x3a[q].index \in ShiftTargets(i, sp) \cap ShiftTargets(j, sp)

(* C7: the state of index 0 is the start state: its basis is one configuration
   with dot 0 for each rule of the start nonterminal, the follow set of each
   holds the end of input, the automaton has one ACCEPT action, in that state
   and on the start nonterminal; and sorted[i] has index i. *)
C7_StartState ==
  pc \in {"Resolve", "CanReduce", "CompressTables"} =>
    LET sp == StartSymbol(rule, start)
    IN /\ \A i \in States : x3a[i].index = i - 1
       /\ \A r \in RuleIndices :
            Cardinality({k \in 1 .. Len(x3a[1].bp) : cfg[x3a[1].bp[k]].rp = r})
            = IF Rp(rule, r).lhs = sp THEN 1 ELSE 0
       /\ \A c \in BasisOf(1) : cfg[c].dot = 0 /\ 0 \in cfg[c].fws
       /\ \A i \in States : Cardinality(ActionsOf(i, "ACCEPT")) = IF i = 1 THEN 1 ELSE 0
       /\ \A a \in ActionsOf(1, "ACCEPT") : x3a[1].ap[a].sp = sp
       /\ SymType(sp) = "NONTERMINAL"

----------------------------------------------------------------------------
(* The claims about FindFirstSets and FindRulePrecedences *)

NullableClosed(N) ==
  \A k \in 1 .. Len(rule) :
    (\A i \in 1 .. Len(rule[k].rhs) : rule[k].rhs[i] \in N) => rule[k].lhs \in N

(* The least set of nonterminals closed under the rules. *)
LeastNullable ==
  {A \in Nonterminals : \A N \in SUBSET Nonterminals : NullableClosed(N) => A \in N}

EmptyThenPair == <<R(SymS, <<>>), R(SymX, <<SymS, SymS>>)>>

(* C8: after FindFirstSets a nonterminal is nullable if and only if it is in
   the least set N of nonterminals that holds every nonterminal with a rule
   whose right-hand side symbols are all in N; no terminal is nullable; and in
   a ::= .  b ::= a a .  both a and b are nullable. *)
C8_Nullable ==
  pc = "FindStates" =>
    /\ \A A \in Nonterminals : lambda[A] <=> A \in LeastNullable
    /\ \A t \in 0 .. (nterminal - 1) : ~lambda[t]
    /\ rule = EmptyThenPair => lambda[SymS] /\ lambda[SymX]

(* FindFirstSets has run on a ::= .  b ::= a a . *)
C8_Witness ==
  pc = "FindStates" /\ rule = EmptyThenPair /\ lambda[SymS] /\ lambda[SymX]

FirstClosed(F, N) ==
  \A k \in 1 .. Len(rule) : \A i \in 1 .. Len(rule[k].rhs) :
    (\A j \in 1 .. (i - 1) : rule[k].rhs[j] \in N) =>
      IF rule[k].rhs[i] \in Terminals
        THEN rule[k].rhs[i] \in F[rule[k].lhs]
        ELSE F[rule[k].rhs[i]] \subseteq F[rule[k].lhs]

(* C9: after FindFirstSets the FIRST sets are the least family of sets of
   terminals such that for every rule A -> X1 ... Xn and every i with X1 ..
   X(i-1) nullable nonterminals, Xi is in FIRST(A) when it is a terminal and
   FIRST(Xi) is a subset of FIRST(A) when it is a nonterminal; FIRST(b) is
   empty in a ::= .  b ::= a a . *)
C9_FirstSets ==
  pc = "FindStates" =>
    LET N == LeastNullable
        Closed == {F \in [Nonterminals -> SUBSET Terminals] : FirstClosed(F, N)}
    IN /\ \A A \in Nonterminals :
            firstset[A] = {t \in Terminals : \A F \in Closed : t \in F[A]}
       /\ rule = EmptyThenPair => firstset[SymX] = {}

(* A rule whose second symbol, a terminal behind a nullable nonterminal other
   than its left-hand side, is in the FIRST set of the left-hand side, which
   the rule's first symbol alone does not give. *)
C9_Witness ==
  /\ pc = "FindStates"
  /\ \E k \in 1 .. Len(rule) :
       /\ Len(rule[k].rhs) = 2
       /\ rule[k].rhs[1] \in Nonterminals \ {rule[k].lhs}
       /\ lambda[rule[k].rhs[1]]
       /\ rule[k].rhs[2] \in Terminals
       /\ rule[k].rhs[2] \in firstset[rule[k].lhs]
       /\ rule[k].rhs[2] \notin firstset[rule[k].rhs[1]]
       /\ \A m \in 1 .. Len(rule) : m # k => rule[m].lhs # rule[k].lhs

(* C10: FindRulePrecedences leaves the precedence symbol of a rule that has
   one, and gives a rule without one the leftmost symbol of its right-hand
   side that has a precedence, or none when no symbol of it has one. *)
C10_RulePrecedence ==
  [][pc = "FindRulePrecedences" =>
       /\ Len(rule') = Len(rule)
       /\ \A k \in 1 .. Len(rule) :
            /\ rule'[k] = [rule[k] EXCEPT !.precsym = rule'[k].precsym]
            /\ rule[k].precsym # NoSym => rule'[k].precsym = rule[k].precsym
            /\ rule[k].precsym = NoSym =>
                 LET rhs == rule[k].rhs
                     with == {i \in 1 .. Len(rhs) : prec[rhs[i]] >= 0}
                 IN IF with = {} THEN rule'[k].precsym = NoSym
                    ELSE \E i \in with : /\ \A j \in with : i <= j
                                         /\ rule'[k].precsym = rhs[i]]_vars

(* FindRulePrecedences has run on a rule that keeps a precedence symbol its
   right-hand side does not hold, and on a rule that took its second symbol,
   the first having no precedence. *)
C10_Witness ==
  /\ pc = "FindFirstSets"
  /\ Len(rule) = 2
  /\ rule[1].precsym = TermA /\ rule[1].rhs = <<TermB, TermB>> /\ prec[TermB] >= 0
  /\ rule[2].precsym = TermB /\ rule[2].rhs = <<TermA, TermB>> /\ prec[TermA] < 0

----------------------------------------------------------------------------
(* Compression of the action tables *)

ActionSet(ap) == {ap[a] : a \in 1 .. Len(ap)}
ReduceSet(ap) == {r \in ActionSet(ap) : r.type = "REDUCE"}
LeastReduce(ap) == CHOOSE r \in ReduceSet(ap) : \A q \in ReduceSet(ap) : r.sp <= q.sp

(* All REDUCE actions of the list are of one rule, and there are two or more. *)
AllOneRule(ap) ==
  /\ Cardinality(ReduceSet(ap)) >= 2
  /\ \A r, q \in ReduceSet(ap) : r.x = q.x

ActionLeq(a, b) ==
  \/ a.sp < b.sp
  \/ a.sp = b.sp /\ TypeNum(a.type) < TypeNum(b.type)
  \/ a.sp = b.sp /\ a.type = b.type /\ a.x <= b.x

ActionsSorted(ap) == \A a, b \in 1 .. Len(ap) : a < b => ActionLeq(ap[a], ap[b])

Collapsed(old, new) ==
  /\ Len(new) = Len(old)
  /\ ActionSet(new) =
       (ActionSet(old) \ ReduceSet(old))
         \cup {[LeastReduce(old) EXCEPT !.sp = nsymbol]}
         \cup {[r EXCEPT !.type = "NOT_USED"] : r \in ReduceSet(old) \ {LeastReduce(old)}}
  /\ ActionsSorted(new)

CompressTablesReturns == pc = "CompressTables" /\ pc' = "ReportOutput"

(* C11 as stated: in every state in which two or more REDUCE actions are of
   one rule, CompressTables leaves that rule one REDUCE action, the one on
   "{default}". *)
C11_SharedRule ==
  [][CompressTablesReturns /\ ~opt.compress =>
       \A i \in States : \A k \in RuleIndices :
         Cardinality({r \in ReduceSet(x3a[i].ap) : r.x = k}) >= 2 =>
           {r.sp : r \in {q \in ReduceSet(x3a'[i].ap) : q.x = k}} = {nsymbol}]_vars

(* C11, amended: CompressTables (run unless -c is given) changes the states
   whose REDUCE actions are two or more and all of one rule, and no other
   state.  In such a state the REDUCE action on the least lookahead becomes
   the action on "{default}", every other REDUCE action becomes NOT_USED, every
   other action is kept, and the list is sorted again. *)
C11_CompressTables ==
  [][CompressTablesReturns =>
       /\ Len(x3a') = Len(x3a)
       /\ \A i \in States :
            IF ~opt.compress /\ AllOneRule(x3a[i].ap)
              THEN /\ Collapsed(x3a[i].ap, x3a'[i].ap)
                   /\ [x3a'[i] EXCEPT !.ap = <<>>] = [x3a[i] EXCEPT !.ap = <<>>]
              ELSE x3a'[i] = x3a[i]]_vars

C11_Witness ==
  /\ pc = "ReportOutput"
  /\ ~opt.compress
  /\ \E i \in States : \E a, b, c \in 1 .. Len(x3a[i].ap) :
       /\ x3a[i].ap[a].sp = nsymbol /\ x3a[i].ap[a].type = "REDUCE"
       /\ x3a[i].ap[b].type = "NOT_USED"
       /\ x3a[i].ap[c].type = "SHIFT"
  /\ \E i \in States : Cardinality(ReduceSet(x3a[i].ap)) >= 2

----------------------------------------------------------------------------
(* The rules that can not be reduced *)

(* What the step has appended to a stream. *)
Written(before, after) == SubSeq(after, Len(before) + 1, Len(after))

NotReducedMsgs(out, k) ==
  {m \in 1 .. Len(out) :
     out[m] = Say("ErrorMsg", "This rule can not be reduced.", k)}

SurvivingReduce(k) ==
  \E i \in States : \E a \in 1 .. Len(x3a[i].ap) :
    x3a[i].ap[a].type = "REDUCE" /\ x3a[i].ap[a].x = k

LostReduce(k) ==
  \E i \in States : \E a \in 1 .. Len(x3a[i].ap) :
    x3a[i].ap[a].type \in {"CONFLICT", "RD_RESOLVED"} /\ x3a[i].ap[a].x = k

(* C14: the last part of FindActions reports a rule with "This rule can not be
   reduced." and counts one error for it if and only if no action of type
   REDUCE, in any state, is left with that rule after the conflicts are
   resolved; it reports and counts nothing else. *)
C14_CanNotReduce ==
  [][pc = "CanReduce" =>
       /\ \A k \in RuleIndices :
            /\ Cardinality(NotReducedMsgs(Written(stdout, stdout'), k))
                 = IF SurvivingReduce(k) THEN 0 ELSE 1
            /\ rule'[k + 1].canReduce = SurvivingReduce(k)
       /\ errorcnt' - errorcnt = Cardinality({k \in RuleIndices : ~SurvivingReduce(k)})
       /\ Len(stdout') - Len(stdout) = errorcnt' - errorcnt
       /\ SubSeq(stdout', 1, Len(stdout)) = stdout]_vars

C14_Witness ==
  /\ pc = "CompressTables"
  /\ \E k, j \in RuleIndices :
       /\ ~SurvivingReduce(k) /\ LostReduce(k)
       /\ NotReducedMsgs(stdout, k) # {}
       /\ SurvivingReduce(j) /\ NotReducedMsgs(stdout, j) = {}

----------------------------------------------------------------------------
(* The exit code *)

Exited == pc = "exit"

(* Parse has returned without an error and without a rule. *)
EmptyGrammar == rule = <<>> /\ errorcnt = 0

(* C12 as stated: on every run the exit code is errorcnt + nconflict. *)
C12_ExitCodeIsCount == Exited => exitcode = errorcnt + nconflict

(* C12, amended: a run that ends at the end of main, or after Parse because of
   errors, exits with (the low byte of) errorcnt + nconflict, which is zero
   when there are none; a run on a grammar without rules ("Empty grammar.")
   and a run that fails an assertion exit with 1, whatever the counts are. *)
C12_ExitCode ==
  /\ Exited =>
       exitcode = IF aborted \/ EmptyGrammar THEN 1
                  ELSE (errorcnt + nconflict) % 256
  /\ ~Exited => exitcode = NoExit

C12_Witness ==
  /\ Exited
  /\ ~aborted
  /\ errorcnt > 0
  /\ nconflict > 0
  /\ exitcode = errorcnt + nconflict
  /\ exitcode > 2

(* The two exits with 1. *)
C12_WitnessAssert == Exited /\ aborted /\ exitcode = 1 /\ errorcnt + nconflict > 1
C12_WitnessEmpty == Exited /\ EmptyGrammar /\ exitcode = 1

----------------------------------------------------------------------------
(* The exit after the errors of Parse *)

(* Parse has counted an error: one of the grammar, or the file it could not
   open or read. *)
ParseCounted == pc # "Parse" /\ (ps.errorcnt > 0 \/ disk.readable # "ok")

(* No phase of the analysis has run and no file has been opened. *)
NothingRun ==
  /\ lambda = [i \in 0 .. nsymbol |-> FALSE]
  /\ firstset = <<>>
  /\ cfg = <<>>
  /\ x3a = <<>>
  /\ stack = <<>>
  /\ nconflict = 0
  /\ ~aborted
  /\ opened = <<>>
  /\ stderr = <<>>

(* C13: if Parse counts at least one error, main exits right after Parse: the
   step that follows Parse is the exit, it changes nothing else, and in every
   state of such a run no phase of the analysis (rule precedences, FIRST sets,
   states, links, follow sets, actions, compression) has run and no .c, .h or
   .out file has been opened for writing. *)
C13_ExitAfterParseErrors ==
  /\ [](ParseCounted => pc \in {"Parsed", "exit"} /\ errorcnt > 0 /\ NothingRun)
  /\ [][pc = "Parsed" /\ errorcnt # 0 =>
          /\ pc' = "exit"
          /\ exitcode' = errorcnt
          /\ UNCHANGED <<rule, prec, assoc, start, lambda, firstset, cfg, x3a,
                         stack, errorcnt, nconflict, aborted, call, opt, stdout,
                         stderr, opened, disk, ps>>]_vars

C13_Witness ==
  /\ Exited
  /\ ps.errorcnt > 0
  /\ rule # <<>>
  /\ Suffixes \subseteq disk.writable
  /\ exitcode = ps.errorcnt
  /\ NothingRun

----------------------------------------------------------------------------
(* The files that do not open *)

(* The messages about a file that did not open or could not be read: those
   of file_open and tplt_open on stderr and those of Parse on stdout. *)
OpenMsgs ==
  Cardinality({i \in 1 .. Len(stderr) : stderr[i].by \in {"file_open", "tplt_open"}})
ReadMsgs ==
  Cardinality({i \in 1 .. Len(stdout) :
                 stdout[i].msg \in {"Can't open this file for reading.",
                                    "Can't read in all bytes of this file."}})

(* The run has come to the end of main through the reports. *)
RanReports == Exited /\ ~aborted /\ ~ParseCounted /\ rule # <<>> /\ ~opt.rpflag

(* What each report does with the files of the run. *)
OutFails == ~opt.quiet /\ ".out" \notin disk.writable
TemplateFails == disk.template # "ok"
CFails == disk.template = "ok" /\ ".c" \notin disk.writable
HUpToDate == disk.hexists /\ HeaderScan(disk.h, ps.tokenprefix, 1) = nterminal
HFails == ~opt.mhflag /\ ".h" \notin disk.writable /\ ~HUpToDate
Count(b) == IF b THEN 1 ELSE 0
OpenFailures == Count(OutFails) + Count(TemplateFails) + Count(CFails) + Count(HFails)

(* C15 as stated: a file that does not open ends the run with one message:
   after the message the next step is the exit and no file is opened. *)
C15_AbortsAtFailure ==
  /\ [](OpenMsgs + ReadMsgs <= 1)
  /\ [][OpenMsgs + ReadMsgs >= 1 => pc' = "exit" /\ opened' = opened]_vars

(* C15, amended: an input file that can not be opened or read gets one
   message from Parse (on stdout), counts one error and ends the run right
   after Parse, with nothing opened.  A template that can not be found or
   opened and an output file that can not be opened for writing get one
   message each on stderr and count one error each; the report that wanted
   the file is given up and the later reports still run and write their
   files, so that a run can print several such messages, and the run ends at
   the end of main with an exit code that is not zero. *)
C15_OpenFailures ==
  /\ pc # "Parse" /\ disk.readable # "ok" =>
       /\ ReadMsgs = 1 /\ OpenMsgs = 0 /\ errorcnt = 1 /\ opened = <<>>
       /\ pc \in {"Parsed", "exit"}
       /\ Exited => exitcode = 1
  /\ disk.readable = "ok" => ReadMsgs = 0
  /\ RanReports =>
       /\ OpenMsgs = OpenFailures
       /\ errorcnt >= OpenFailures
       /\ OpenFailures > 0 => exitcode > 0
       /\ \A i, j \in 1 .. Len(opened) : i # j => opened[i] # opened[j]
       /\ \A i, j \in 1 .. Len(opened) :
            i < j => <<opened[i], opened[j]>> \in {<<".out", ".c">>, <<".out", ".h">>, <<".c", ".h">>}
       /\ (\E i \in 1 .. Len(opened) : opened[i] = ".out")
            <=> ~opt.quiet /\ ".out" \in disk.writable
       /\ (\E i \in 1 .. Len(opened) : opened[i] = ".c")
            <=> disk.template = "ok" /\ ".c" \in disk.writable
       /\ (\E i \in 1 .. Len(opened) : opened[i] = ".h")
            => ~opt.mhflag /\ ".h" \in disk.writable
       /\ ~opt.mhflag /\ ".h" \in disk.writable => HUpToDate

(* The .out file did not open; the .c file and the .h file were written
   after that, and the template of another run did not open and its .h file
   was written. *)
C15_Witness ==
  /\ RanReports
  /\ OutFails
  /\ opened = <<".c", ".h">>
  /\ OpenMsgs = 1
  /\ errorcnt = 1
  /\ exitcode > 0

C15_WitnessTemplate ==
  /\ RanReports
  /\ TemplateFails /\ OutFails
  /\ opened = <<".h">>
  /\ OpenMsgs = 2

----------------------------------------------------------------------------
(* The .h file *)

(* The text ReportHeader writes: one line per terminal, in index order. *)
HeaderText == [i \in 1 .. (nterminal - 1) |-> HeaderLine(ps.tokenprefix, i, i)]

ReportHeaderRuns == pc = "ReportHeader" /\ ~opt.mhflag /\ ".h" \in disk.writable

HeaderIdentical == disk.hexists /\ disk.h = HeaderText

(* C16: ReportHeader leaves the .h file unwritten when the file it finds holds
   the text it would write and rewrites it whenever the two differ, so that
   after it has run the file holds one line per terminal, for the indices
   1 .. nterminal-1 in index order, and nothing else. *)
C16_HeaderExact ==
  [][ReportHeaderRuns =>
       /\ disk'.hexists
       /\ disk'.h = HeaderText
       /\ opened' = IF HeaderIdentical THEN opened ELSE Append(opened, ".h")]_vars

(* What the loop of ReportHeader does decide: the file is left as it is when
   its first nterminal-1 lines are the lines ReportHeader would write,
   whatever follows them, and is rewritten otherwise. *)
HeaderPrefixKept ==
  [][ReportHeaderRuns =>
       IF disk.hexists /\ Len(disk.h) >= nterminal - 1
            /\ SubSeq(disk.h, 1, nterminal - 1) = HeaderText
         THEN disk' = disk /\ opened' = opened
         ELSE disk'.h = HeaderText /\ disk'.hexists /\ opened' = Append(opened, ".h")]_vars

(* A .h file with a line after the lines of the terminals is kept. *)
StaleHeaderKept ==
  /\ pc = "Exit"
  /\ ~opt.mhflag
  /\ ".h" \in disk.writable
  /\ Len(disk.h) = nterminal
  /\ SubSeq(disk.h, 1, nterminal - 1) = HeaderText
  /\ opened = <<".out", ".c">>

----------------------------------------------------------------------------
(* Reprint and Parse *)

(* Reprint has run: stdout holds its text, and nothing else yet. *)
Reprinted == pc = "Exit" /\ opt.rpflag

(* Parse on the text of stdout, from the state main starts Parse in. *)
Reparsed ==
  ParseLoop([state |-> "INITIALIZE", lhs |-> NoSym, rhs |-> <<>>,
             prevrule |-> NoSym, declkeyword |-> "", declargslot |-> NoSlot,
             declassoc |-> "UNK", preccounter |-> 0, errorcnt |-> 0,
             firstrule |-> <<>>, filled |-> {}, tokenprefix |-> "",
             symbols |-> {0, errsym}, text |-> TextOf(stdout),
             prec |-> NoPrec, assoc |-> NoAssoc, start |-> NoName,
             out |-> <<>>])

(* C17: for every grammar that parses without error, Parse on the text that
   Reprint (-g) prints yields the same rules in the same order, the same
   precedence and associativity for every terminal and the same precedence
   symbol for every rule. *)
C17_ReprintRoundTrip ==
  Reprinted =>
    /\ Reparsed.errorcnt = 0
    /\ Reparsed.firstrule = rule
    /\ \A t \in Terminals :
         Reparsed.prec[t] = prec[t] /\ Reparsed.assoc[t] = assoc[t]

(* The part of the round trip that does hold: the rules, in their order, with
   their precedence symbols. *)
ReprintKeepsRules ==
  Reprinted => Reparsed.errorcnt = 0 /\ Reparsed.firstrule = rule

(* The precedence of a terminal is lost in the text of Reprint. *)
ReprintLosesPrec ==
  /\ Reprinted
  /\ \E t \in Terminals : prec[t] > 0 /\ Reparsed.prec[t] = -1
  /\ \E k \in 1 .. Len(rule) : rule[k].precsym # NoSym

----------------------------------------------------------------------------
(* The indices of the symbols *)

SymbolTable == {x2a[i] : i \in 1 .. Len(x2a)}

(* a comes before b in the order of the ASCII codes. *)
NameBefore(a, b) ==
  \/ Len(a) < Len(b) /\ SubSeq(b, 1, Len(a)) = a
  \/ \E k \in 1 .. Len(a) :
       /\ k <= Len(b)
       /\ SubSeq(a, 1, k - 1) = SubSeq(b, 1, k - 1)
       /\ a[k] < b[k]

(* C18: after main has indexed the symbols, the index of every symbol is the
   position of its name in the ASCII (strcmp) order of all the names, "$" has
   index 0, and the symbols with an index below nterminal are "$" and the
   symbols whose name starts with an uppercase letter: every symbol of type
   TERMINAL has an index in 1 .. nterminal-1 and every other symbol with a
   name of the grammar (and "{default}") an index of nterminal or more. *)
C18_SymbolIndex ==
  pc = "Indexed" =>
    /\ Len(lem.symbols) = lem.nsymbol + 1
    /\ {lem.symbols[i] : i \in 1 .. Len(lem.symbols)} = SymbolTable
    /\ \A i \in 1 .. Len(lem.symbols) : lem.symbols[i].index = i - 1
    /\ \A s \in SymbolTable :
         /\ s.index = Cardinality({t \in SymbolTable : NameBefore(t.name, s.name)})
         /\ s.name = DollarName => s.index = 0
         /\ s.index < lem.nterminal <=> s.name = DollarName \/ isupper(s.name[1])
         /\ s.type = "TERMINAL" => s.index \in 1 .. (lem.nterminal - 1)
         /\ s.type # "TERMINAL" /\ s.name # DollarName => s.index >= lem.nterminal
    /\ lem.nterminal \in 1 .. lem.nsymbol

(* Terminals and nonterminals of the grammar, a name that starts another
   name, and a symbol made after the symbols that follow it in the order. *)
C18_Witness ==
  /\ pc = "Indexed"
  /\ lem.nterminal >= 3
  /\ lem.nsymbol >= lem.nterminal + 2
  /\ \E s, t \in SymbolTable : Len(s.name) < Len(t.name) /\ SubSeq(t.name, 1, Len(s.name)) = s.name
  /\ \E i, j \in 1 .. Len(x2a) : i < j /\ x2a[i].index > x2a[j].index /\ i > 2

----------------------------------------------------------------------------
(* The streams *)

ErrorMsgsOn(out) == {i \in 1 .. Len(out) : out[i].by = "ErrorMsg"}

(* C19: every message of ErrorMsg is written to stderr; stdout receives only
   the reprinted grammar (-g) and the statistics (-s). *)
C19_ErrorMsgToStderr ==
  /\ ErrorMsgsOn(stdout) = {}
  /\ \A i \in 1 .. Len(stdout) :
       stdout[i].by = "printf" /\ (opt.rpflag \/ opt.statistics)

(* Where the messages do go: those of ErrorMsg to stdout and none of them to
   stderr; stdout has nothing else but the texts of -g and -s. *)
ErrorMsgToStdout ==
  /\ ErrorMsgsOn(stderr) = {}
  /\ \A i \in 1 .. Len(stdout) :
       stdout[i].by = "ErrorMsg" \/ (stdout[i].by = "printf" /\ (opt.rpflag \/ opt.statistics))

(* A run with an error of the grammar and an error of the analysis on
   stdout. *)
ErrorMsgOnStdout ==
  /\ Exited
  /\ ErrorMsgsOn(stdout) # {}
  /\ stderr # <<>>

----------------------------------------------------------------------------
(* Termination *)

(* C20: the analysis terminates: every run comes to its exit, and on the way
   every pass of the nullable loop and of the FIRST loop of FindFirstSets
   and of the propagation loop of FindFollowSets either makes one of the sets
   it works on larger, none smaller, or ends its loop, and every step of
   getstate and buildshifts keeps the states or adds one state, no two
   states having the same basis. *)
C20_Terminates ==
  /\ <>(pc = "exit")
  /\ [](\A i, j \in States : BasisKey(i) = BasisKey(j) => i = j)
  /\ [][/\ pc = "LambdaLoop" =>
             ((\A i \in 0 .. nsymbol : lambda[i] => lambda'[i])
                /\ (pc' = "LambdaLoop" => lambda' # lambda))
        /\ pc = "FirstLoop" =>
             ((\A i \in Nonterminals : firstset[i] \subseteq firstset'[i])
                /\ (pc' = "FirstLoop" => firstset' # firstset))
        /\ pc = "FollowLoop" =>
             (DOMAIN cfg' = DOMAIN cfg
                /\ (\A id \in DOMAIN cfg : cfg[id].fws \subseteq cfg'[id].fws)
                /\ (pc' = "FollowLoop" =>
                      \E id \in DOMAIN cfg : cfg'[id].fws # cfg[id].fws))
        /\ Len(x3a') \in {Len(x3a), Len(x3a) + 1}
        /\ \A i \in States : BasisKey(i)' = BasisKey(i)]_vars

(* A run without an error that has come to its exit with nullable symbols,
   FIRST sets, follow sets and four states or more. *)
C20_Witness ==
  /\ pc = "exit"
  /\ ~aborted
  /\ errorcnt = 0
  /\ Len(x3a) >= 4
  /\ \E i \in Nonterminals : lambda[i]
  /\ \E i \in Nonterminals : firstset[i] # {}
  /\ \E id \in DOMAIN cfg : cfg[id].fws # {}

----------------------------------------------------------------------------
(* The claims about the actions after the conflicts are resolved *)

AfterFindActions == {"CanReduce", "CompressTables"}

LiveOn(i, t) ==
  {a \in 1 .. Len(x3a[i].ap) :
     x3a[i].ap[a].sp = t /\ x3a[i].ap[a].type \in {"SHIFT", "REDUCE"}}

ActionsOn(i, t) == {a \in 1 .. Len(x3a[i].ap) : x3a[i].ap[a].sp = t}

(* C21: after FindActions, in every state and for every terminal t, at most
   one action on t has type SHIFT or REDUCE, and every other action on t is
   CONFLICT, SH_RESOLVED or RD_RESOLVED, whatever the number of actions that
   compete on t. *)
C21_OneLiveAction ==
  pc \in AfterFindActions =>
    \A i \in States : \A t \in Terminals :
      /\ Cardinality(LiveOn(i, t)) <= 1
      /\ \A a \in ActionsOn(i, t) \ LiveOn(i, t) :
           x3a[i].ap[a].type \in {"CONFLICT", "SH_RESOLVED", "RD_RESOLVED"}

(* A shift that lost to the first of two reduces on its lookahead: the second
   reduce was compared with the shift only, and both reduces stay. *)
TwoLiveReduces ==
  /\ pc \in AfterFindActions
  /\ \E i \in States : \E t \in Terminals :
       /\ \E a \in ActionsOn(i, t) : x3a[i].ap[a].type = "SH_RESOLVED"
       /\ Cardinality({a \in LiveOn(i, t) : x3a[i].ap[a].type = "REDUCE"}) >= 2

----------------------------------------------------------------------------
(* The claims about getstate and buildshifts *)

AfterFindLinks == AfterFollowSets \cup {"FindFollowSets"}

Links(plp) == {plp[k] : k \in 1 .. Len(plp)}

(* The configurations of state i that the inner loop of buildshifts takes
   for the symbol sp. *)
DotBefore(i, sp) ==
  {c \in ConfigsOf(i) : cfg[c].dot < Nrhs(c) /\ AfterDot(c) = sp}

(* The step of buildshifts in which getstate finds the state it looks for. *)
GetstateFound ==
  /\ pc = "buildshifts"
  /\ pc' = "buildshifts"
  /\ Len(stack') = Len(stack)
  /\ stack' # stack

(* C22: when getstate finds a state with the same sorted basis it returns
   that state, the states and their indices stay as they are, no
   configuration is left over, and the existing basis configuration with the
   same rule and dot gets the backward links of each discarded one; so after
   FindLinks, for every shift p --X--> q, every configuration of p with X
   after the dot has a forward link to its successor in the basis of q. *)
C22_FoundStateLinks ==
  /\ [][GetstateFound =>
          /\ Len(x3a') = Len(x3a)
          /\ Len(cfg') = Len(cfg)
          /\ \A i \in States :
               /\ x3a'[i].index = x3a[i].index
               /\ x3a'[i].bp = x3a[i].bp
               /\ x3a'[i].cfp = x3a[i].cfp
          /\ \E q \in States :
               /\ x3a'[Top.stp + 1].ap =
                    Action_add(x3a[Top.stp + 1].ap, "SHIFT", Top'.sp, x3a[q].index)
               /\ \A c \in DotBefore(Top.stp + 1, Top'.sp) :
                    \E d \in BasisOf(q) :
                      /\ cfg[d].rp = cfg[c].rp
                      /\ cfg[d].dot = cfg[c].dot + 1
                      /\ c \in Links(cfg'[d].bplp)
                      /\ Links(cfg[d].bplp) \subseteq Links(cfg'[d].bplp)]_vars
  /\ [](pc \in AfterFindLinks =>
          \A i \in States : \A c \in ConfigsOf(i) :
            cfg[c].dot < Nrhs(c) =>
              \A q \in ShiftTargets(i, AfterDot(c)) :
                \E d \in BasisOf(q + 1) :
                  /\ cfg[d].rp = cfg[c].rp
                  /\ cfg[d].dot = cfg[c].dot + 1
                  /\ d \in Links(cfg[c].fplp))

(* After FindLinks, a basis configuration with forward links from
   configurations of two states: one of them built the state, the other
   found it. *)
C22_Witness ==
  /\ pc = "FindFollowSets"
  /\ \E q, i, j \in States :
       /\ i # j
       /\ \E sp \in 0 .. nsymbol :
            x3a[q].index \in ShiftTargets(i, sp) \cap ShiftTargets(j, sp)
       /\ \E d \in BasisOf(q) : \E c \in ConfigsOf(i) : \E e \in ConfigsOf(j) :
            /\ d \in Links(cfg[c].fplp)
            /\ d \in Links(cfg[e].fplp)
            /\ Len(cfg[d].bplp) >= 2

AllStatesBuilt == AfterFindLinks \cup {"FindLinks"}

ShiftsOn(i, sp) ==
  {a \in 1 .. Len(x3a[i].ap) :
     x3a[i].ap[a].type \in {"SHIFT", "SH_RESOLVED"} /\ x3a[i].ap[a].sp = sp}

RuleDot(ids) == {<<cfg[d].rp, cfg[d].dot>> : d \in ids}

(* C23: every state has at most one shift action on a symbol X, terminal or
   nonterminal; it has one if and only if one of its configurations has X
   after the dot, and the basis of the state the shift leads to is the set
   of those configurations with the dot moved one place to the right. *)
C23_OneShiftPerSymbol ==
  pc \in AllStatesBuilt =>
    \A i \in States : \A sp \in 0 .. nsymbol :
      /\ Cardinality(ShiftsOn(i, sp)) <= 1
      /\ ShiftsOn(i, sp) # {} <=> DotBefore(i, sp) # {}
      /\ \A q \in ShiftTargets(i, sp) :
           RuleDot(BasisOf(q + 1)) =
             {<<cfg[c].rp, cfg[c].dot + 1>> : c \in DotBefore(i, sp)}

(* A state with shifts on a terminal and on a nonterminal, one of them from
   two configurations at once, and with a symbol it has no shift on. *)
C23_Witness ==
  /\ pc = "FindLinks"
  /\ \E i \in States :
       /\ \E t \in Terminals : ShiftsOn(i, t) # {}
       /\ \E n \in Nonterminals : ShiftsOn(i, n) # {}
       /\ \E sp \in 0 .. nsymbol :
            ShiftsOn(i, sp) # {} /\ Cardinality(DotBefore(i, sp)) >= 2
       /\ \E sp \in Terminals : ShiftsOn(i, sp) = {}

----------------------------------------------------------------------------
(* The claims about the sorts of the action lists *)

(* C24: every comparison of the sorts of the action lists satisfies the
   assertion of actioncmp (two actions with the same lookahead and the same
   type are both REDUCE), in the sort of FindActions and in the sort of
   CompressTables after the conflicts are resolved, so that no sort ends the
   run with a failed assertion. *)
C24_ActioncmpAssert ==
  /\ pc = "Resolve" => \A i \in States : Action_sort(x3a[i].ap).ok
  /\ (pc = "CompressTables" /\ ~opt.compress) =>
       \A i \in States : CompressState(x3a[i]).ok

(* The sort of FindActions alone. *)
FindActionsSortHolds ==
  pc = "Resolve" => \A i \in States : Action_sort(x3a[i].ap).ok

(* CompressTables is about to sort a state in which two reduces lost against
   a third on one lookahead: two CONFLICT actions on one symbol. *)
TwoConflictsSorted ==
  /\ pc = "CompressTables"
  /\ ~opt.compress
  /\ \E i \in States :
       /\ ~CompressState(x3a[i]).ok
       /\ \E a, b \in ActionsOf(i, "CONFLICT") :
            a # b /\ x3a[i].ap[a].sp = x3a[i].ap[b].sp

----------------------------------------------------------------------------
(* The claims about the graph of the states *)

(* The states the shift actions of state i lead to. *)
Succ(i) == UNION {{q + 1 : q \in ShiftTargets(i, sp)} : sp \in 0 .. nsymbol}

RECURSIVE ReachFrom(_)
ReachFrom(S) ==
  LET Grow(N) == IF N = S THEN S ELSE ReachFrom(N)
  IN Grow(S \cup UNION {Succ(i) : i \in S})

OnCycle(i) == i \in ReachFrom(Succ(i))

(* C26: the graph of the states and the shift actions is acyclic, and every
   state is reachable from state 0 through shift actions. *)
C26_ShiftGraphIsDag ==
  pc \in AllStatesBuilt =>
    /\ \A i \in States : ~OnCycle(i)
    /\ ReachFrom({1}) = States

(* C26, amended: every state is reachable from state 0 through shift
   actions; the graph may have cycles. *)
C26_ShiftGraphRooted ==
  pc \in AllStatesBuilt => ReachFrom({1}) = States

(* All states built, one of them other than state 0 on a cycle of shifts and
   reachable from state 0. *)
C26_Witness ==
  /\ pc = "FindLinks"
  /\ \E i \in States : i > 1 /\ OnCycle(i) /\ i \in ReachFrom({1})
  /\ Len(x3a) >= 4

----------------------------------------------------------------------------
(* Parse taken one token at a time: each step is one turn of the loop of
   Parse over the buffer, and the last step is its return.  call keeps what
   the run has read so far: the number of precedence declarations (ndecl),
   for every terminal the declaration that listed it first (declof), and the
   rules whose "." has been read, in that order, each with its left-hand
   side and its right-hand side (done). *)

MaxParseTokens == 4
MaxPhrases == 3

ParseAlphabet ==
  {Id(SymS), Id(TermA), Punct("::="), Punct("."), Punct("%"), Kw("left"),
   Punct("("), Punct("{"), Punct("[")}

(* Every text of up to MaxParseTokens tokens; a keyword stands after a "%". *)
TokenTexts ==
  {t \in UNION {[1 .. k -> ParseAlphabet] : k \in 0 .. MaxParseTokens} :
     \A i \in 1 .. Len(t) : t[i] = Kw("left") => i > 1 /\ t[i - 1] = Punct("%")}

(* Pieces of grammar files: precedence declarations, rules with and without
   aliases, a precedence mark, a code fragment, other declarations, and
   pieces with an error in a rule or in a declaration. *)
Phrases ==
  {<<Punct("%"), Kw("left"), Id(TermA), Punct(".")>>,
   <<Punct("%"), Kw("right"), Id(TermB), Punct(".")>>,
   <<Punct("%"), Kw("nonassoc"), Id(TermA), Id(TermB), Punct(".")>>,
   <<Punct("%"), Kw("left"), Id(SymS), Id(TermB), Punct(".")>>,
   <<Id(SymS), Punct("::="), Id(TermA), Punct(".")>>,
   <<Id(SymX), Punct("::="), Id(SymS), Id(TermB), Punct(".")>>,
   <<Id(SymS), Punct("("), Id(SymX), Punct(")"), Punct("::="), Id(TermA),
     Punct("("), Id(SymX), Punct(")"), Punct(".")>>,
   <<Id(SymX), Punct("::="), Id(TermA), Punct("["), Id(TermB), Punct(".")>>,
   <<Id(SymS), Id(TermA), Punct("%"), Kw("left"), Id(TermB), Punct(".")>>,
   <<Punct("%"), Id(TermB), Id(SymS), Punct("::="), Id(TermA), Punct(".")>>,
   <<Punct("["), Id(TermA), Punct("]")>>,
   <<Punct("{")>>,
   <<Punct("//"), Id(SymS), Punct("\n")>>,
   <<Punct("%"), Kw("start_symbol"), Id(SymS)>>,
   <<Punct("%"), Kw("type"), Id(SymS), Punct("{")>>}

RECURSIVE Concat(_)
Concat(ts) == IF ts = <<>> THEN <<>> ELSE Head(ts) \o Concat(Tail(ts))

PhraseTexts == {Concat(ts) : ts \in UNION {[1 .. k -> Phrases] : k \in 0 .. MaxPhrases}}

NoHistory == [ndecl |-> 0, declof |-> [t \in Terminals |-> 0], done |-> <<>>]

(* Parse up to the loop over the buffer, which has been read. *)
InitParse ==
  /\ pc = "parseonetoken"
  /\ rule = <<>>
  /\ prec = NoPrec
  /\ assoc = NoAssoc
  /\ start = NoName
  /\ \E text \in TokenTexts \cup PhraseTexts :
       /\ disk = [NoDisk EXCEPT !.input = text]
       /\ ps = [state |-> "INITIALIZE", lhs |-> NoSym,
                rhs |-> <<>>, prevrule |-> NoSym,
                declkeyword |-> "", declargslot |-> NoSlot,
                declassoc |-> "UNK", preccounter |-> 0,
                errorcnt |-> 0, firstrule |-> <<>>,
                nrule |-> 0, index |-> <<>>,
                symrule |-> [sp \in 0 .. nsymbol |-> <<>>],
                coded |-> {},
                filled |-> {}, tokenprefix |-> "",
                symbols |-> {0, errsym}, text |-> text,
                prec |-> NoPrec, assoc |-> NoAssoc,
                start |-> NoName, out |-> <<>>]
  /\ opt = NoOptions
  /\ lambda = [i \in 0 .. nsymbol |-> FALSE]
  /\ firstset = <<>>
  /\ cfg = <<>>
  /\ x3a = <<>>
  /\ stack = <<>>
  /\ errorcnt = 0
  /\ nconflict = 0
  /\ aborted = FALSE
  /\ call = NoHistory
  /\ InitRun
  /\ NoSymbols

(* The token the next turn of the loop hands to parseonetoken. *)
NextToken == Head(SkipSpace(ps.text))

History(h, P, x) ==
  [ndecl |-> IF /\ P.state = "WAITING_FOR_DECL_KEYWORD"
                /\ x.word \in {"left", "right", "nonassoc"}
               THEN h.ndecl + 1 ELSE h.ndecl,
   declof |-> IF /\ P.state = "WAITING_FOR_PRECEDENCE_SYMBOL"
                 /\ x.t = "UPPER"
                 /\ h.declof[x.name] = 0
                THEN [h.declof EXCEPT ![x.name] = h.ndecl] ELSE h.declof,
   done |-> IF P.state = "IN_RHS" /\ x.t = "."
              THEN Append(h.done, <<P.lhs, P.rhs>>) ELSE h.done]

(* One turn of the loop: white space and comments are skipped and the token
   goes to parseonetoken. *)
ParseToken ==
  /\ pc = "parseonetoken"
  /\ SkipSpace(ps.text) # <<>>
  /\ ps' = parseonetoken([ps EXCEPT !.text = Tail(SkipSpace(ps.text))], NextToken)
  /\ call' = History(call, ps, NextToken)
  /\ UNCHANGED <<pc, rule, prec, assoc, start, lambda, firstset, cfg, x3a, stack,
                 errorcnt, nconflict, aborted, opt, exitcode, stdout, stderr,
                 opened, disk, x2a, lem>>

(* The end of the buffer: gp->rule = ps.firstrule; gp->errorcnt = ps.errorcnt;
   the precedences and the declaration arguments are in the symbols and in
   *gp already. *)
ParseEnd ==
  /\ pc = "parseonetoken"
  /\ SkipSpace(ps.text) = <<>>
  /\ rule' \in ParseReturn(ps)
  /\ errorcnt' = ps.errorcnt
  /\ prec' = ps.prec
  /\ assoc' = ps.assoc
  /\ start' = ps.start
  /\ stdout' = ps.out
  /\ pc' = "Parsed"
  /\ UNCHANGED <<lambda, firstset, cfg, x3a, stack, nconflict, aborted, call,
                 opt, exitcode, stderr, opened, disk, ps, x2a, lem>>

NextParse ==
  \/ ParseToken
  \/ ParseEnd

SpecParse == InitParse /\ [][NextParse]_vars

----------------------------------------------------------------------------
(* The claims about the parser of the grammar file *)

ResyncStates == {"RESYNC_AFTER_RULE_ERROR", "RESYNC_AFTER_DECL_ERROR"}

RuleStates ==
  {"WAITING_FOR_ARROW", "LHS_ALIAS_1", "LHS_ALIAS_2", "LHS_ALIAS_3", "IN_RHS",
   "RHS_ALIAS_1", "RHS_ALIAS_2"}

DeclStates ==
  {"WAITING_FOR_DECL_KEYWORD", "WAITING_FOR_DECL_ARG",
   "WAITING_FOR_DESTRUCTOR_SYMBOL", "WAITING_FOR_DATATYPE_SYMBOL"}

(* What a token leaves alone when it is discarded: the rules, the
   precedences and the declaration arguments. *)
Discarded ==
  /\ ps'.firstrule = ps.firstrule
  /\ ps'.nrule = ps.nrule
  /\ ps'.coded = ps.coded
  /\ ps'.prec = ps.prec
  /\ ps'.assoc = ps.assoc
  /\ ps'.preccounter = ps.preccounter
  /\ ps'.filled = ps.filled
  /\ ps'.start = ps.start
  /\ ps'.tokenprefix = ps.tokenprefix
  /\ ps'.symbols = ps.symbols
  /\ ps'.errorcnt = ps.errorcnt
  /\ ps'.out = ps.out

(* An error makes one message and counts once. *)
ErrorsCountOnce ==
  /\ ps'.errorcnt - ps.errorcnt = Len(ps'.out) - Len(ps.out)
  /\ ps'.errorcnt - ps.errorcnt \in {0, 1}
  /\ (ps'.state \in ResyncStates /\ ps.state \notin ResyncStates)
       => ps'.errorcnt = ps.errorcnt + 1

(* The errors of a rule lead to one resync state, those of a declaration to
   the other. *)
ErrorsResync ==
  /\ (ps.state \in RuleStates /\ ps'.errorcnt # ps.errorcnt)
       => ps'.state = "RESYNC_AFTER_RULE_ERROR"
  /\ (ps.state \in DeclStates /\ ps'.errorcnt # ps.errorcnt)
       => ps'.state = "RESYNC_AFTER_DECL_ERROR"

(* C27: after an error in a rule the parser discards every token up to the
   next "." and only then waits for a declaration or a rule; after an error
   in a declaration it discards every token up to the next "%" and then
   waits for a declaration keyword; a discarded token makes no rule, no
   precedence and no declaration argument, and every error is counted
   once. *)
C27_ResyncByKind ==
  [][pc = "parseonetoken" /\ pc' = "parseonetoken" =>
       /\ ps.state = "RESYNC_AFTER_RULE_ERROR" =>
            /\ Discarded
            /\ ps'.state = IF NextToken.t = "." THEN "WAITING_FOR_DECL_OR_RULE"
                           ELSE "RESYNC_AFTER_RULE_ERROR"
       /\ ps.state = "RESYNC_AFTER_DECL_ERROR" =>
            /\ Discarded
            /\ ps'.state = IF NextToken.t = "%" THEN "WAITING_FOR_DECL_KEYWORD"
                           ELSE "RESYNC_AFTER_DECL_ERROR"
       /\ ErrorsResync
       /\ ErrorsCountOnce]_vars

(* C27, amended: the two resync states do the same.  After an error in a
   rule or in a declaration (other than in the list of a precedence
   declaration) the parser discards every token up to the next "." or "%",
   whichever comes first: after the "." it waits for a declaration or a
   rule, after the "%" for a declaration keyword. *)
C27_Resync ==
  [][pc = "parseonetoken" /\ pc' = "parseonetoken" =>
       /\ ps.state \in ResyncStates =>
            /\ Discarded
            /\ ps'.state = IF NextToken.t = "." THEN "WAITING_FOR_DECL_OR_RULE"
                           ELSE IF NextToken.t = "%" THEN "WAITING_FOR_DECL_KEYWORD"
                           ELSE ps.state
       /\ ErrorsResync
       /\ ErrorsCountOnce]_vars

(* The parser has left both resync states, the one of a rule on a "%" and
   the one of a declaration on a ".", has counted two errors, and has
   completed a rule after them. *)
C27_Witness ==
  /\ pc = "parseonetoken"
  /\ ps.errorcnt = 2
  /\ ps.state = "WAITING_FOR_DECL_OR_RULE"
  /\ Len(ps.firstrule) = 1
  /\ ps.prec[TermB] = 1
  /\ \E k \in 1 .. Len(ps.out) :
       ps.out[k].msg = "Expected to see a : following the LHS symbol."
  /\ \E k \in 1 .. Len(ps.out) : ps.out[k].msg = "Unknown declaration keyword."

AssocOfWord(w) ==
  CASE w = "left" -> "LEFT" [] w = "right" -> "RIGHT" [] w = "nonassoc" -> "NONE"

(* C28: each %left, %right or %nonassoc declaration adds one to the
   precedence counter, and every terminal listed before the next "." gets the
   value of the counter and the associativity of the declaration, so that the
   terminals of a later declaration have a strictly higher precedence than
   those of every earlier one; a terminal that has a precedence keeps its
   first precedence and associativity, and one error is counted; and in every
   state a symbol has a precedence if and only if its associativity is left,
   right or none. *)
C28_PrecedenceCounter ==
  /\ [][pc = "parseonetoken" /\ pc' = "parseonetoken" =>
          /\ (/\ ps.state = "WAITING_FOR_DECL_KEYWORD"
              /\ NextToken.word \in {"left", "right", "nonassoc"}) =>
               /\ ps'.preccounter = ps.preccounter + 1
               /\ ps'.declassoc = AssocOfWord(NextToken.word)
               /\ ps'.state = "WAITING_FOR_PRECEDENCE_SYMBOL"
               /\ ps'.prec = ps.prec
               /\ ps'.assoc = ps.assoc
          /\ (ps.state = "WAITING_FOR_PRECEDENCE_SYMBOL" /\ NextToken.t = "UPPER") =>
               /\ ps'.state = ps.state
               /\ ps'.preccounter = ps.preccounter
               /\ IF ps.prec[NextToken.name] < 0
                    THEN /\ ps'.prec = [ps.prec EXCEPT ![NextToken.name] = ps.preccounter]
                         /\ ps'.assoc = [ps.assoc EXCEPT ![NextToken.name] = ps.declassoc]
                         /\ ps'.errorcnt = ps.errorcnt
                    ELSE /\ ps'.prec = ps.prec
                         /\ ps'.assoc = ps.assoc
                         /\ ps'.errorcnt = ps.errorcnt + 1
          /\ ~(\/ ps.state = "WAITING_FOR_DECL_KEYWORD"
               \/ ps.state = "WAITING_FOR_PRECEDENCE_SYMBOL") =>
               /\ ps'.preccounter = ps.preccounter
               /\ ps'.prec = ps.prec
               /\ ps'.assoc = ps.assoc]_vars
  /\ [](/\ ps.preccounter = call.ndecl
        /\ \A t \in Terminals :
             IF call.declof[t] = 0 THEN ps.prec[t] = -1
             ELSE ps.prec[t] = call.declof[t]
        /\ \A t, u \in Terminals :
             (call.declof[t] # 0 /\ call.declof[t] < call.declof[u])
               => ps.prec[t] < ps.prec[u]
        /\ \A sp \in 0 .. nsymbol :
             /\ ps.prec[sp] >= 0 <=> ps.assoc[sp] \in {"LEFT", "RIGHT", "NONE"}
             /\ ps.prec[sp] < 0 <=> ps.assoc[sp] = "UNK"
        /\ pc = "Parsed" => prec = ps.prec /\ assoc = ps.assoc)

(* Three declarations read, the third listing again the terminals of the
   first and the second: two errors, and the first precedences kept. *)
C28_Witness ==
  /\ pc = "Parsed"
  /\ ps.preccounter = 3
  /\ prec[TermA] = 1
  /\ assoc[TermA] = "LEFT"
  /\ prec[TermB] = 2
  /\ assoc[TermB] = "RIGHT"
  /\ ps.declassoc = "NONE"
  /\ errorcnt = 2

(* The rules of the chain of sp, sp->rule first. *)
ChainOf(sp) == ps.symrule[sp]

RulesOf(sp) == {k \in 0 .. (Len(ps.firstrule) - 1) : ps.firstrule[k + 1].lhs = sp}

LhsRhs(rules) == [k \in 1 .. Len(rules) |-> <<rules[k].lhs, rules[k].rhs>>]

(* The list, the indices and the chains at any moment of Parse. *)
RuleListSound ==
  /\ LhsRhs(ps.firstrule) = call.done
  /\ ps.nrule = Len(ps.firstrule)
  /\ Len(ps.index) = Len(ps.firstrule)
  /\ \A k \in 1 .. Len(ps.index) : ps.index[k] = k - 1
  /\ \A sp \in 0 .. nsymbol :
       /\ {ChainOf(sp)[j] : j \in 1 .. Len(ChainOf(sp))} = RulesOf(sp)
       /\ Len(ChainOf(sp)) = Cardinality(RulesOf(sp))
       /\ ChainOf(sp) = SpRule(ps.firstrule, sp)

(* C29: after parsing any token sequence, the rule list of the grammar holds
   the completed rules in the order in which their "." was read, the k-th
   rule has index k, nrule is the number of rules of the list, and every
   rule is once in the chain of its left-hand side; a rule given up after an
   error is in no list and has no index. *)
C29_RuleList ==
  pc = "Parsed" =>
    /\ LhsRhs(rule) = call.done
    /\ rule = ps.firstrule
    /\ RuleListSound

(* The same for the texts with at least one token. *)
RuleListAfterTokens ==
  /\ RuleListSound
  /\ (pc = "Parsed" /\ ps.state # "INITIALIZE") =>
       LhsRhs(rule) = call.done /\ rule = ps.firstrule

(* Parse has returned from a text without a token with a pointer to no rule
   in lem.rule. *)
WildRuleList ==
  /\ pc = "Parsed"
  /\ ps.state = "INITIALIZE"
  /\ rule = WildRule

(* Parse has returned with two rules of one nonterminal and one error, of a
   rule that was given up. *)
TwoRulesParsed ==
  /\ pc = "Parsed"
  /\ Len(rule) = 2
  /\ errorcnt = 1
  /\ rule[1].lhs = rule[2].lhs
  /\ \E k \in 1 .. Len(stdout) : stdout[k].msg = "Illegal character on RHS of rule."

----------------------------------------------------------------------------
(* The scanner of Parse, character by character.  mem is the memory from
   filebuf on: the bytes of the file, the NUL Parse puts behind them at
   filebuf[filesize], and what the allocator has behind the buffer, which the
   program does not own (a few bytes and a NUL).  cp is the offset of the
   cursor from filebuf.  call holds mem, the offset nul of the terminating
   NUL, cp and lineno. *)

NUL == "NUL"

MaxChars == 4

ScanChars == {"a", "\n", "/", "*", "{", "}", "\"", "'", "\\"}

Buffers == UNION {[1 .. k -> ScanChars] : k \in 0 .. MaxChars}

(* What may stand behind the buffer. *)
Behind == {<<>>, <<"a">>, <<"}">>}

At(mem, cp) == IF cp >= 0 /\ cp < Len(mem) THEN mem[cp + 1] ELSE NUL

isspace(c) == c \in {" ", "\n"}
isalnum(c) == c = "a"

(* while( (c= *cp)!=0 && c!='\n' ) cp++; *)
RECURSIVE SkipToNewline(_, _)
SkipToNewline(mem, cp) ==
  IF At(mem, cp) # NUL /\ At(mem, cp) # "\n" THEN SkipToNewline(mem, cp + 1) ELSE cp

(* The while-loop of a C comment outside a code block, which looks at cp[-1]. *)
RECURSIVE SkipComment(_, _)
SkipComment(mem, cp) ==
  IF At(mem, cp) # NUL /\ (At(mem, cp) # "/" \/ At(mem, cp - 1) # "*")
    THEN SkipComment(mem, cp + 1) ELSE cp

(* while( (c= *cp)!=0 && c!='\"' ) cp++; *)
RECURSIVE SkipString(_, _)
SkipString(mem, cp) ==
  IF At(mem, cp) # NUL /\ At(mem, cp) # "\"" THEN SkipString(mem, cp + 1) ELSE cp

(* The while-loop of a C comment inside a code block, which keeps prevc. *)
RECURSIVE InnerComment(_, _, _)
InnerComment(mem, cp, prevc) ==
  IF At(mem, cp) # NUL /\ (At(mem, cp) # "/" \/ prevc # "*")
    THEN InnerComment(mem, cp + 1, At(mem, cp)) ELSE cp

(* The for-loop of a string or character literal inside a code block. *)
RECURSIVE InnerLiteral(_, _, _, _)
InnerLiteral(mem, cp, startchar, prevc) ==
  IF At(mem, cp) # NUL /\ (At(mem, cp) # startchar \/ prevc = "\\")
    THEN InnerLiteral(mem, cp + 1, startchar,
                      IF prevc = "\\" THEN NUL ELSE At(mem, cp))
    ELSE cp

(* The for-loop of a code block: the offset at which it ends.  The cp++ of
   the for statement follows every turn, also the turn in which an inner loop
   has stopped at a NUL. *)
RECURSIVE CodeBlock(_, _, _)
CodeBlock(mem, cp, level) ==
  LET c == At(mem, cp)
  IN IF c = NUL \/ (level <= 1 /\ c = "}") THEN cp
     ELSE IF c = "{" THEN CodeBlock(mem, cp + 1, level + 1)
     ELSE IF c = "}" THEN CodeBlock(mem, cp + 1, level - 1)
     ELSE IF c = "/" /\ At(mem, cp + 1) = "*"
       THEN CodeBlock(mem, InnerComment(mem, cp + 2, NUL) + 1, level)
     ELSE IF c = "/" /\ At(mem, cp + 1) = "/"
       THEN CodeBlock(mem, SkipToNewline(mem, cp + 2) + 1, level)
     ELSE IF c = "'" \/ c = "\""
       THEN CodeBlock(mem, InnerLiteral(mem, cp + 1, c, NUL) + 1, level)
     ELSE CodeBlock(mem, cp + 1, level)

(* while( (c= *cp)!=0 && (safe_isalnum(c) || c=='_') ) cp++; *)
RECURSIVE SkipIdentifier(_, _)
SkipIdentifier(mem, cp) ==
  IF At(mem, cp) # NUL /\ (isalnum(At(mem, cp)) \/ At(mem, cp) = "_")
    THEN SkipIdentifier(mem, cp + 1) ELSE cp

(* The number of newlines from offset a up to, not including, offset b. *)
Newlines(mem, a, b) == Cardinality({i \in a .. (b - 1) : At(mem, i) = "\n"})

(* The token that starts at cp: the offset cp at which it is terminated, the
   offset nextcp the scan goes on at, and the message of the scanner if the
   token is not terminated. *)
ScanToken(mem, cp) ==
  LET c == At(mem, cp)
      Ends(q, msg) ==
        [cp |-> q, nextcp |-> IF At(mem, q) = NUL THEN q ELSE q + 1,
         msg |-> IF At(mem, q) = NUL THEN msg ELSE ""]
      Plain(q) == [cp |-> q, nextcp |-> q, msg |-> ""]
  IN IF c = "\""
       THEN Ends(SkipString(mem, cp + 1),
                 "String starting on this line is not terminated before the end of the file.")
     ELSE IF c = "{"
       THEN Ends(CodeBlock(mem, cp + 1, 1),
                 "C code starting on this line is not terminated before the end of the file.")
     ELSE IF isalnum(c) THEN Plain(SkipIdentifier(mem, cp))
     ELSE IF c = ":" /\ At(mem, cp + 1) = ":" /\ At(mem, cp + 2) = "="
       THEN Plain(cp + 3)
     ELSE Plain(cp + 1)

(* The token as parseonetoken sees it: every identifier of the buffers is a
   name of the nonterminal s. *)
TokenAt(mem, cp) ==
  LET c == At(mem, cp)
  IN IF isalnum(c) THEN Id(SymS)
     ELSE IF c = ":" /\ At(mem, cp + 1) = ":" /\ At(mem, cp + 2) = "="
       THEN Punct("::=")
     ELSE Punct(c)

ScannerError(P, msg) ==
  IF msg = "" THEN P
  ELSE [P EXCEPT !.out = ErrorMsg(@, msg, NoSym), !.errorcnt = @ + 1]

InitScan ==
  /\ pc = "scan"
  /\ rule = <<>>
  /\ prec = NoPrec
  /\ assoc = NoAssoc
  /\ start = NoName
  /\ \E buf \in Buffers : \E junk \in Behind :
       /\ disk = [NoDisk EXCEPT !.input = buf]
       /\ call = [mem |-> buf \o <<NUL>> \o junk \o <<NUL>>, nul |-> Len(buf),
                  cp |-> 0, lineno |-> 1]
  /\ ps = [state |-> "INITIALIZE", lhs |-> NoSym,
           rhs |-> <<>>, prevrule |-> NoSym,
           declkeyword |-> "", declargslot |-> NoSlot,
           declassoc |-> "UNK", preccounter |-> 0,
           errorcnt |-> 0, firstrule |-> <<>>,
           nrule |-> 0, index |-> <<>>,
           symrule |-> [sp \in 0 .. nsymbol |-> <<>>],
           coded |-> {},
           filled |-> {}, tokenprefix |-> "",
           symbols |-> {0, errsym}, text |-> <<>>,
           prec |-> NoPrec, assoc |-> NoAssoc,
           start |-> NoName, out |-> <<>>]
  /\ opt = NoOptions
  /\ lambda = [i \in 0 .. nsymbol |-> FALSE]
  /\ firstset = <<>>
  /\ cfg = <<>>
  /\ x3a = <<>>
  /\ stack = <<>>
  /\ errorcnt = 0
  /\ nconflict = 0
  /\ aborted = FALSE
  /\ InitRun
  /\ NoSymbols

(* One turn of the for-loop of Parse over the buffer: white space, a comment,
   or a token, which is terminated, handed to parseonetoken and restored. *)
ScanTurn ==
  /\ pc = "scan"
  /\ At(call.mem, call.cp) # NUL
  /\ \E c \in {At(call.mem, call.cp)} :
       IF isspace(c)
         THEN /\ call' = [call EXCEPT !.cp = @ + 1,
                                        !.lineno = @ + (IF c = "\n" THEN 1 ELSE 0)]
              /\ ps' = ps
       ELSE IF c = "/" /\ At(call.mem, call.cp + 1) = "/"
         THEN /\ call' = [call EXCEPT !.cp = SkipToNewline(call.mem, call.cp + 2)]
              /\ ps' = ps
       ELSE IF c = "/" /\ At(call.mem, call.cp + 1) = "*"
         THEN /\ \E q \in {SkipComment(call.mem, call.cp + 2)} :
                   call' = [call EXCEPT
                              !.cp = IF At(call.mem, q) # NUL THEN q + 1 ELSE q,
                              !.lineno = @ + Newlines(call.mem, call.cp + 2, q)]
              /\ ps' = ps
       ELSE \E t \in {ScanToken(call.mem, call.cp)} :
              /\ call' = [call EXCEPT
                            !.cp = t.nextcp,
                            !.lineno = @ + Newlines(call.mem, call.cp, t.cp)]
              /\ ps' = parseonetoken(ScannerError(ps, t.msg),
                                     TokenAt(call.mem, call.cp))
  /\ UNCHANGED <<pc, rule, prec, assoc, start, lambda, firstset, cfg, x3a, stack,
                 errorcnt, nconflict, aborted, opt, exitcode, stdout, stderr,
                 opened, disk, x2a, lem>>

(* The loop ends at a NUL: free(filebuf) and the two assignments to *gp. *)
ScanEnd ==
  /\ pc = "scan"
  /\ At(call.mem, call.cp) = NUL
  /\ rule' \in ParseReturn(ps)
  /\ errorcnt' = ps.errorcnt
  /\ prec' = ps.prec
  /\ assoc' = ps.assoc
  /\ start' = ps.start
  /\ stdout' = ps.out
  /\ pc' = "Parsed"
  /\ UNCHANGED <<lambda, firstset, cfg, x3a, stack, nconflict, aborted, call,
                 opt, exitcode, stderr, opened, disk, ps, x2a, lem>>

NextScan ==
  \/ ScanTurn
  \/ ScanEnd

SpecScan == InitScan /\ [][NextScan]_vars

----------------------------------------------------------------------------
(* The claims about the scanner *)

ScannerMsgs ==
  {k \in 1 .. Len(ps.out) :
     ps.out[k].msg \in
       {"String starting on this line is not terminated before the end of the file.",
        "C code starting on this line is not terminated before the end of the file."}}

StartsWith(buf, pre) == Len(buf) >= Len(pre) /\ SubSeq(buf, 1, Len(pre)) = pre

Holds(buf, from, c) == \E i \in from .. Len(buf) : buf[i] = c

(* The file is one construct that is open at its end: a C comment, a string,
   or a code block, alone or with a comment or a literal open in it. *)
OpenAtEnd(buf) ==
  \/ StartsWith(buf, <<"/", "*">>) /\ ~Holds(buf, 4, "/")
  \/ StartsWith(buf, <<"\"">>) /\ ~Holds(buf, 2, "\"")
  \/ StartsWith(buf, <<"{">>) /\ ~Holds(buf, 2, "}")

(* C25: on every buffer the scanner of Parse comes to an end, its cursor
   never goes past the NUL that ends the buffer, also when a comment or a
   literal in a code block is open at the end of the file, and every
   construct that is open at the end of the file is counted as an error. *)
C25_ScannerInBounds ==
  /\ [](call.cp <= call.nul)
  /\ [][pc = "scan" /\ pc' = "scan" => call'.cp > call.cp]_vars
  /\ []((pc = "Parsed" /\ OpenAtEnd(disk.input)) =>
          ScannerMsgs # {} /\ errorcnt > 0)

(* Every turn moves the cursor forward, and the cursor stays in the buffer
   as long as the file opens no code block. *)
ScannerOutsideCode ==
  /\ [][pc = "scan" /\ pc' = "scan" => call'.cp > call.cp]_vars
  /\ [](~Holds(disk.input, 1, "{") => call.cp <= call.nul)
  /\ [](call.cp <= Len(call.mem) - 1)

(* The cursor behind the NUL of the buffer after a code block with a comment
   open in it, and the block taken as closed by a byte behind the buffer. *)
CursorPastNul ==
  /\ pc = "Parsed"
  /\ call.cp > call.nul + 1
  /\ StartsWith(disk.input, <<"{", "/", "*">>)
  /\ ScannerMsgs = {}

(* A C comment open at the end of the file, and no error. *)
OpenCommentNoError ==
  /\ pc = "Parsed"
  /\ StartsWith(disk.input, <<"/", "*">>)
  /\ ~Holds(disk.input, 4, "/")
  /\ errorcnt = 0

----------------------------------------------------------------------------
(* The claims about the tables of the .c file *)

TablesWritten == pc \in {"ReportHeader", "Exit", "exit"} /\ (\E k \in 1 .. Len(opened) : opened[k] = ".c")

(* The pairs of lookahead and action a state gives to its table. *)
EmittedPairs(i) ==
  {<<x3a[i].ap[a].sp, compute_action(Len(x3a), Len(rule), x3a[i].ap[a])>> :
     a \in Hashed(x3a[i].ap, Len(x3a), Len(rule))}

(* The smallest power of two that is at least n. *)
PowerOfTwo(p) == \E e \in 0 .. 11 : p = 2 ^ e
SmallestPower(n) ==
  CHOOSE p \in 1 .. 2048 :
    PowerOfTwo(p) /\ p >= n /\ \A q \in 1 .. (p - 1) : PowerOfTwo(q) => q < n

RECURSIVE SizesBelow(_)
SizesBelow(i) ==
  IF i <= 1 THEN 0
  ELSE SizesBelow(i - 1) + SmallestPower(Cardinality(EmittedPairs(i - 1)))

(* The slots a lookup comes to that starts at the entry with index e and
   follows the links, at most fuel of them. *)
RECURSIVE Probe(_, _)
Probe(e, fuel) ==
  IF e < 0 \/ e >= Len(disk.c.yyActionTable) \/ fuel = 0 THEN {}
  ELSE {e} \cup Probe(disk.c.yyActionTable[e + 1].next, fuel - 1)

PairAt(e) ==
  <<disk.c.yyActionTable[e + 1].lookahead, disk.c.yyActionTable[e + 1].action>>

DefaultActions(i) == {a \in 1 .. Len(x3a[i].ap) : x3a[i].ap[a].sp = nsymbol}

(* C30: the hash table of every state has the smallest power of two that
   holds its actions for size, starts where the tables of the states before
   it end, holds every pair of lookahead and action of the state once, every
   pair is found from the slot of its lookahead along the links, and the
   line of the state has the start, the mask and the default action. *)
C30_HashTables ==
  TablesWritten =>
    /\ Len(disk.c.yyStateTable) = Len(x3a)
    /\ Len(disk.c.yyActionTable) = SizesBelow(Len(x3a) + 1)
    /\ \A i \in States :
         LET size == SmallestPower(Cardinality(EmittedPairs(i)))
             off == SizesBelow(i)
             row == disk.c.yyStateTable[i]
             slots == off .. (off + size - 1)
         IN /\ row.hashtbl = off
            /\ row.mask = size - 1
            /\ row.actionDefault =
                 IF DefaultActions(i) # {}
                   THEN compute_action(Len(x3a), Len(rule),
                          x3a[i].ap[CHOOSE a \in DefaultActions(i) : TRUE])
                   ELSE Len(x3a) + Len(rule)
            /\ Cardinality({e \in slots : PairAt(e)[1] # nsymbol + 1}) =
                 Cardinality(EmittedPairs(i))
            /\ \A p \in EmittedPairs(i) :
                 /\ Cardinality({e \in slots : PairAt(e) = p}) = 1
                 /\ \E e \in Probe(off + BitAnd(p[1], size - 1), size) :
                      e \in slots /\ PairAt(e) = p

(* The tables are written, and a state has a default action and an entry that
   is found over a link only. *)
C30_Witness ==
  /\ TablesWritten
  /\ \E i \in States :
       /\ DefaultActions(i) # {}
       /\ \E e \in 0 .. (Len(disk.c.yyActionTable) - 1) :
            /\ disk.c.yyActionTable[e + 1].next >= 0
            /\ disk.c.yyStateTable[i].hashtbl <= e
            /\ e <= disk.c.yyStateTable[i].hashtbl + disk.c.yyStateTable[i].mask
            /\ disk.c.yyStateTable[i].hashtbl > 0


====
